---- MODULE Spec2Model ----
(***************************************************************************)
(* Model of the Helios DAC Go examples.                                    *)
(*                                                                         *)
(* Part 1: the concurrent generator/writer pipeline of                     *)
(* sdk/go/examples/concurrent/main.go: main, the generateFrames goroutine, *)
(* the outputLoop running on the main goroutine, the signal goroutine, the *)
(* time.Ticker feeding generateFrames and the capacity-2 channel between   *)
(* the two.  Every select, channel operation, DAC call and sleep of the    *)
(* source is one step that takes no time; goroutines interleave freely     *)
(* between steps.  The clock counts whole ticker periods (1/FrameRate s);  *)
(* a sleep of d milliseconds lasts at least d rounded down to whole        *)
(* periods.                                                                *)
(***************************************************************************)
EXTENDS Integers, Sequences, FiniteSets, TLC

(***************************************************************************)
(* Program constants (concurrent/main.go).                                 *)
(***************************************************************************)
PPS == 30000

FrameRate == 30

ChanCap == 2

TickerCap == 1

SleepMs == 1

CleanupSleepMs == 100

\* the clock's unit: the ticker period time.Second / FrameRate
TickPeriod == 1

\* a duration of ms milliseconds in whole ticker periods, rounded down
Periods(ms) == (ms * FrameRate) \div 1000

(***************************************************************************)
(* Bounds of the exploration.                                              *)
(***************************************************************************)
\* the clock stops being tracked after MaxTime ticker periods
MaxTime == 5

\* OpenDevices reports 0..MaxDevices devices
MaxDevices == 1

VARIABLES
    now,          \* wall clock, in ticker periods
    mpc,          \* position of main
    cancelled,    \* ctx.Done() is closed
    ppc,          \* position of generateFrames
    nextTickAt,   \* the instant the ticker fires next
    tickerC,      \* ticker.C: the number of ticks not yet received
    ticksFired,   \* number of times the ticker has fired
    dropped,      \* ticks the ticker discarded because ticker.C was full
    produced,     \* frames compiled by generateFrames so far
    held,         \* frames compiled by generateFrames and not yet sent
    enqueued,     \* frames sent on framesChan so far
    framesChan,   \* the buffered channel
    cpc,          \* position of outputLoop
    currentFrame, \* outputLoop's currentFrame
    status,       \* outputLoop's status
    sleepUntil,   \* end of outputLoop's time.Sleep
    mainWakeAt,   \* end of main's time.Sleep
    call,         \* the DAC call made by the last step, NoCall if none
    stdout,       \* the lines printed so far
    lastDeq,      \* history: index of the frame received last
    drainSeen,    \* history: frames received in the current drain pass
    skipped,      \* history: frames received in a drain pass and replaced in it
    enqAtDrain,   \* history: value of enqueued when the drain loop last exited
    lastWrite,    \* history: the last WriteFrame call of outputLoop
    sinceWrite,   \* history: time since that call, counted up to MinGapPeriods
    allReady,     \* history: every GetStatus so far returned 1
    dpc,          \* dot generator: position of main
    flags,        \* dot generator: the parsed flags x, y, radius, pps
    points,       \* dot generator: main's points slice
    singleLoop,   \* dot generator: main's singleLoop slice
    callee,       \* function under call: its name
    args,         \* function under call: its arguments
    result,       \* function under call: whether it has returned, and what
    lpc,          \* output loop programs: position of main
    loop          \* output loop programs: main's locals and the calls made so far

pipelineVars == <<now, mpc, cancelled, ppc, nextTickAt, tickerC, ticksFired,
                  dropped, produced, held, enqueued, framesChan, cpc, currentFrame,
          status, sleepUntil, mainWakeAt, call, stdout, lastDeq, drainSeen,
          skipped, enqAtDrain, lastWrite, sinceWrite, allReady>>

dotVars == <<dpc, flags, points, singleLoop>>

callVars == <<callee, args, result>>

loopVars == <<lpc, loop>>

\* the variables of the programs other than the pipeline
otherVars == <<dotVars, callVars, loopVars>>

vars == <<pipelineVars, dotVars, callVars, loopVars>>

mainVars == <<mpc, mainWakeAt>>

producerVars == <<ppc, nextTickAt, tickerC, ticksFired, dropped, produced, held,
                  enqueued>>

consumerVars == <<cpc, currentFrame, status, sleepUntil, lastDeq, drainSeen,
                  skipped, enqAtDrain, lastWrite, allReady>>

clockVars == <<now, sinceWrite>>

(***************************************************************************)
(* Values.                                                                 *)
(***************************************************************************)
\* var currentFrame []helios.Point : the nil slice
NilFrame == [idx |-> 0, len |-> 0]

\* no WriteFrame call has been made
NoWrite ==
    [idx |-> 0, len |-> 0, pps |-> 0, enq |-> 0, deq |-> 0, drainEnq |-> 0,
     gap |-> -1, prevLen |-> 0]

NoCall == [op |-> "none", by |-> "none"]

DacCall(op, by) == [op |-> op, by |-> by]

\* the values GetStatus can report: error, busy, ready
StatusValues == {-1, 0, 1}

\* the lines the program prints that do not report a hardware error
LifecycleLines ==
    {"No devices found. Exiting.", "Generator: Started", "Generator: Stopping",
     "Writer: Started (Locked to OS Thread)", "Writer: Stopping",
     "Shutdown signal received...", "Devices closed. Bye!"}

MinOf(S) == CHOOSE x \in S : \A y \in S : x <= y

\* a sleep or timer started to end at t has elapsed (the clock saturates at MaxTime)
TimeUp(t) == now >= t \/ now >= MaxTime

(***************************************************************************)
(* generateFrames: the n-th frame compiled.                                *)
(***************************************************************************)
NumPoints == PPS \div FrameRate

\* the playback time of a frame of len points is len / PPS seconds, that is
\* len * FrameRate / PPS periods; 0.9 of it, rounded up to whole periods
MinGapPeriods == (9 * NumPoints * FrameRate + 10 * PPS - 1) \div (10 * PPS)

CompileFrame(n) == [idx |-> n, len |-> NumPoints]

(***************************************************************************)
(* Channel operations.                                                     *)
(***************************************************************************)
\* faulty variant: a send that never waits for room
CanSendAlways(ch) == TRUE

CanSend(ch) == Len(ch) < ChanCap

CanRecv(ch) == Len(ch) > 0

\* faulty variant: a receive that takes the newest element instead of the oldest
RecvNewest(ch) == ch[Len(ch)]

RecvValue(ch) == Head(ch)

RecvRest(ch) == Tail(ch)

(***************************************************************************)
(* Initial state: the process has started, main has not yet run.           *)
(***************************************************************************)
PipelineInit ==
    /\ now = 0
    /\ mpc = "Open"
    /\ cancelled = FALSE
    /\ ppc = "NotStarted"
    /\ nextTickAt = 0
    /\ tickerC = 0
    /\ ticksFired = 0
    /\ dropped = 0
    /\ produced = 0
    /\ held = {}
    /\ enqueued = 0
    /\ framesChan = <<>>
    /\ cpc = "NotStarted"
    /\ currentFrame = NilFrame
    /\ status = 0
    /\ sleepUntil = 0
    /\ mainWakeAt = 0
    /\ call = NoCall
    /\ stdout = {}
    /\ lastDeq = 0
    /\ drainSeen = {}
    /\ skipped = {}
    /\ enqAtDrain = 0
    /\ lastWrite = NoWrite
    /\ sinceWrite = 0
    /\ allReady = TRUE

\* the dot generator is not running
DotIdle ==
    /\ dpc = "Idle"
    /\ flags = [x |-> 0, y |-> 0, radius |-> 0, pps |-> 0]
    /\ points = <<>>
    /\ singleLoop = <<>>

\* no function is under call
NoResult == [done |-> FALSE, value |-> <<>>]

CallIdle ==
    /\ callee = "none"
    /\ args = <<>>
    /\ result = NoResult

\* no output loop program is running
LoopIdle ==
    /\ lpc = "Idle"
    /\ loop = [prog |-> "none"]

Init == PipelineInit /\ DotIdle /\ CallIdle /\ LoopIdle

(***************************************************************************)
(* main.                                                                   *)
(***************************************************************************)
\* faulty variant: a main that goes on when OpenDevices found no device
MainOpenNoCheck ==
    /\ mpc = "Open"
    /\ \E n \in 0..MaxDevices :
        /\ mpc' = "Setup"
        /\ stdout' = IF n = 0 THEN stdout \cup {"No devices found. Exiting."} ELSE stdout
    /\ call' = DacCall("OpenDevices", "main")
    /\ UNCHANGED otherVars
    /\ UNCHANGED <<now, sinceWrite, cancelled, mainWakeAt, framesChan>>
    /\ UNCHANGED producerVars
    /\ UNCHANGED consumerVars

\* dac.OpenDevices(); with no device main prints and returns
MainOpen ==
    /\ mpc = "Open"
    /\ \E n \in 0..MaxDevices :
        /\ mpc' = IF n = 0 THEN "Returned" ELSE "Setup"
        /\ stdout' = IF n = 0 THEN stdout \cup {"No devices found. Exiting."} ELSE stdout
    /\ call' = DacCall("OpenDevices", "main")
    /\ UNCHANGED otherVars
    /\ UNCHANGED <<now, sinceWrite, cancelled, mainWakeAt, framesChan>>
    /\ UNCHANGED producerVars
    /\ UNCHANGED consumerVars

\* context.WithCancel, make(chan, 2), go generateFrames, the signal goroutine,
\* and the call of outputLoop on the main goroutine
MainSetup ==
    /\ mpc = "Setup"
    /\ mpc' = "Running"
    /\ framesChan' = <<>>
    /\ ppc' = "Start"
    /\ cpc' = "Start"
    /\ call' = NoCall
    /\ UNCHANGED otherVars
    /\ UNCHANGED <<now, sinceWrite, cancelled, mainWakeAt, stdout>>
    /\ UNCHANGED <<nextTickAt, tickerC, ticksFired, dropped, produced, held, enqueued>>
    /\ UNCHANGED <<currentFrame, status, sleepUntil, lastDeq, drainSeen, skipped,
                   enqAtDrain, lastWrite, allReady>>

\* the signal goroutine: <-sigChan, then cancel()
Signal ==
    /\ mpc \in {"Running", "CleanupSleep", "Stop", "CloseDevices"}
    /\ ~cancelled
    /\ cancelled' = TRUE
    /\ stdout' = stdout \cup {"Shutdown signal received..."}
    /\ call' = NoCall
    /\ UNCHANGED otherVars
    /\ UNCHANGED <<now, sinceWrite, framesChan>>
    /\ UNCHANGED mainVars
    /\ UNCHANGED producerVars
    /\ UNCHANGED consumerVars

\* outputLoop has returned: time.Sleep(100 * time.Millisecond)
MainAfterLoop ==
    /\ mpc = "Running"
    /\ cpc = "Done"
    /\ mpc' = "CleanupSleep"
    /\ mainWakeAt' = now + Periods(CleanupSleepMs)
    /\ call' = NoCall
    /\ UNCHANGED otherVars
    /\ UNCHANGED <<now, sinceWrite, cancelled, framesChan, stdout>>
    /\ UNCHANGED producerVars
    /\ UNCHANGED consumerVars

\* dac.Stop(0)
MainStop ==
    /\ mpc = "CleanupSleep"
    /\ TimeUp(mainWakeAt)
    /\ mpc' = "CloseDevices"
    /\ call' = DacCall("Stop", "main")
    /\ UNCHANGED otherVars
    /\ UNCHANGED <<now, sinceWrite, cancelled, mainWakeAt, framesChan, stdout>>
    /\ UNCHANGED producerVars
    /\ UNCHANGED consumerVars

\* dac.CloseDevices(), the final print, and the deferred cancel() on return
MainClose ==
    /\ mpc = "CloseDevices"
    /\ mpc' = "Returned"
    /\ cancelled' = TRUE
    /\ stdout' = stdout \cup {"Devices closed. Bye!"}
    /\ call' = DacCall("CloseDevices", "main")
    /\ UNCHANGED otherVars
    /\ UNCHANGED <<now, sinceWrite, mainWakeAt, framesChan>>
    /\ UNCHANGED producerVars
    /\ UNCHANGED consumerVars

(***************************************************************************)
(* The clock and the ticker.                                               *)
(***************************************************************************)
TickerOn == ppc \in {"WaitTick", "Send"}

\* the instants at which a timer or a sleep ends
TimedEvents ==
    (IF TickerOn THEN {nextTickAt} ELSE {})
    \cup (IF cpc = "Sleep" /\ sleepUntil > now THEN {sleepUntil} ELSE {})
    \cup (IF mpc = "CleanupSleep" /\ mainWakeAt > now THEN {mainWakeAt} ELSE {})

\* time passes up to the next instant at which a timer or a sleep ends
Advance ==
    /\ now < MaxTime
    /\ TimedEvents # {}
    /\ TickerOn => now < nextTickAt
    /\ now' = IF MinOf(TimedEvents) > MaxTime THEN MaxTime ELSE MinOf(TimedEvents)
    /\ sinceWrite' = IF sinceWrite + (now' - now) > MinGapPeriods THEN MinGapPeriods
                     ELSE sinceWrite + (now' - now)
    /\ call' = NoCall
    /\ UNCHANGED otherVars
    /\ UNCHANGED <<cancelled, framesChan, stdout>>
    /\ UNCHANGED mainVars
    /\ UNCHANGED producerVars
    /\ UNCHANGED consumerVars

\* the ticker fires: the tick is delivered on ticker.C, or discarded when the
\* previous tick has not been received yet
TickerFire ==
    /\ TickerOn
    /\ now = nextTickAt
    /\ nextTickAt' = nextTickAt + TickPeriod
    /\ ticksFired' = ticksFired + 1
    /\ IF tickerC < TickerCap
         THEN tickerC' = tickerC + 1 /\ dropped' = dropped
         ELSE tickerC' = tickerC /\ dropped' = dropped + 1
    /\ call' = NoCall
    /\ UNCHANGED otherVars
    /\ UNCHANGED <<now, sinceWrite, cancelled, framesChan, stdout>>
    /\ UNCHANGED <<ppc, produced, held, enqueued>>
    /\ UNCHANGED mainVars
    /\ UNCHANGED consumerVars

(***************************************************************************)
(* generateFrames.                                                         *)
(***************************************************************************)
\* time.NewTicker(time.Second / FrameRate), startTime, the "Started" print
ProducerStart ==
    /\ ppc = "Start"
    /\ ppc' = "WaitTick"
    /\ nextTickAt' = now + TickPeriod
    /\ stdout' = stdout \cup {"Generator: Started"}
    /\ call' = NoCall
    /\ UNCHANGED otherVars
    /\ UNCHANGED <<now, sinceWrite, cancelled, framesChan>>
    /\ UNCHANGED <<tickerC, ticksFired, dropped, produced, held, enqueued>>
    /\ UNCHANGED mainVars
    /\ UNCHANGED consumerVars

\* case t := <-ticker.C: the frame for t is compiled
ProducerTick ==
    /\ ppc = "WaitTick"
    /\ tickerC > 0
    /\ tickerC' = tickerC - 1
    /\ produced' = produced + 1
    /\ held' = held \cup {CompileFrame(produced + 1)}
    /\ ppc' = "Send"
    /\ call' = NoCall
    /\ UNCHANGED otherVars
    /\ UNCHANGED <<now, sinceWrite, cancelled, framesChan, stdout>>
    /\ UNCHANGED <<nextTickAt, ticksFired, dropped, enqueued>>
    /\ UNCHANGED mainVars
    /\ UNCHANGED consumerVars

\* case <-ctx.Done() of the outer select: print, return (deferred ticker.Stop)
ProducerCancelWait ==
    /\ ppc = "WaitTick"
    /\ cancelled
    /\ ppc' = "Done"
    /\ stdout' = stdout \cup {"Generator: Stopping"}
    /\ call' = NoCall
    /\ UNCHANGED otherVars
    /\ UNCHANGED <<now, sinceWrite, cancelled, framesChan>>
    /\ UNCHANGED <<nextTickAt, tickerC, ticksFired, dropped, produced, held, enqueued>>
    /\ UNCHANGED mainVars
    /\ UNCHANGED consumerVars

\* faulty variant: a non-blocking send that drops the frame when the channel is full
ProducerSendOrDrop ==
    /\ ppc = "Send"
    /\ \E f \in held :
        /\ framesChan' = IF CanSend(framesChan) THEN Append(framesChan, f) ELSE framesChan
        /\ held' = held \ {f}
    /\ enqueued' = IF CanSend(framesChan) THEN enqueued + 1 ELSE enqueued
    /\ ppc' = "WaitTick"
    /\ call' = NoCall
    /\ UNCHANGED otherVars
    /\ UNCHANGED <<now, sinceWrite, cancelled, stdout>>
    /\ UNCHANGED <<nextTickAt, tickerC, ticksFired, dropped, produced>>
    /\ UNCHANGED mainVars
    /\ UNCHANGED consumerVars

\* case framesChan <- frame
ProducerSend ==
    /\ ppc = "Send"
    /\ CanSend(framesChan)
    /\ \E f \in held :
        /\ framesChan' = Append(framesChan, f)
        /\ held' = held \ {f}
    /\ enqueued' = enqueued + 1
    /\ ppc' = "WaitTick"
    /\ call' = NoCall
    /\ UNCHANGED otherVars
    /\ UNCHANGED <<now, sinceWrite, cancelled, stdout>>
    /\ UNCHANGED <<nextTickAt, tickerC, ticksFired, dropped, produced>>
    /\ UNCHANGED mainVars
    /\ UNCHANGED consumerVars

\* faulty variant: an inner select without the <-ctx.Done() case
SendCancelNever == FALSE

\* the inner select's <-ctx.Done() case is ready
SendCancelReady == cancelled

\* case <-ctx.Done() of the inner select: return, the frame is abandoned
ProducerCancelSend ==
    /\ ppc = "Send"
    /\ SendCancelReady
    /\ ppc' = "Done"
    /\ call' = NoCall
    /\ UNCHANGED otherVars
    /\ UNCHANGED <<now, sinceWrite, cancelled, framesChan, stdout>>
    /\ UNCHANGED <<nextTickAt, tickerC, ticksFired, dropped, produced, held, enqueued>>
    /\ UNCHANGED mainVars
    /\ UNCHANGED consumerVars

(***************************************************************************)
(* outputLoop.                                                             *)
(***************************************************************************)
\* the record of one WriteFrame(0, PPS, 0, currentFrame) call
\* (enq, deq: the number of frames enqueued and the frame received last at the
\* call; drainEnq: the number of frames enqueued at the drain loop's exit;
\* gap, prevLen: the time since the previous call, counted up to
\* MinGapPeriods, and that call's frame length)
WriteRecord ==
    [idx |-> currentFrame.idx, len |-> currentFrame.len, pps |-> PPS,
     enq |-> enqueued, deq |-> lastDeq, drainEnq |-> enqAtDrain,
     gap |-> IF lastWrite = NoWrite THEN -1 ELSE sinceWrite,
     prevLen |-> lastWrite.len]

\* runtime.LockOSThread, the "Started" print, var currentFrame
ConsumerStart ==
    /\ cpc = "Start"
    /\ cpc' = "AwaitFirst"
    /\ currentFrame' = NilFrame
    /\ stdout' = stdout \cup {"Writer: Started (Locked to OS Thread)"}
    /\ call' = NoCall
    /\ UNCHANGED otherVars
    /\ UNCHANGED <<now, sinceWrite, cancelled, framesChan>>
    /\ UNCHANGED <<status, sleepUntil, lastDeq, drainSeen, skipped, enqAtDrain,
                   lastWrite, allReady>>
    /\ UNCHANGED mainVars
    /\ UNCHANGED producerVars

\* faulty variant: an initial select that does not wait for a frame
ConsumerFirstFrameNoWait ==
    /\ cpc = "AwaitFirst"
    /\ cpc' = "LoopTop"
    /\ call' = NoCall
    /\ UNCHANGED otherVars
    /\ UNCHANGED <<now, sinceWrite, cancelled, framesChan, stdout>>
    /\ UNCHANGED <<currentFrame, status, sleepUntil, lastDeq, drainSeen, skipped,
                   enqAtDrain, lastWrite, allReady>>
    /\ UNCHANGED mainVars
    /\ UNCHANGED producerVars

\* initial select, case f := <-framesChan
ConsumerFirstFrame ==
    /\ cpc = "AwaitFirst"
    /\ CanRecv(framesChan)
    /\ currentFrame' = RecvValue(framesChan)
    /\ lastDeq' = RecvValue(framesChan).idx
    /\ framesChan' = RecvRest(framesChan)
    /\ cpc' = "LoopTop"
    /\ call' = NoCall
    /\ UNCHANGED otherVars
    /\ UNCHANGED <<now, sinceWrite, cancelled, stdout>>
    /\ UNCHANGED <<status, sleepUntil, drainSeen, skipped, enqAtDrain, lastWrite, allReady>>
    /\ UNCHANGED mainVars
    /\ UNCHANGED producerVars

\* initial select, case <-ctx.Done(): return
ConsumerCancelFirst ==
    /\ cpc = "AwaitFirst"
    /\ cancelled
    /\ cpc' = "Done"
    /\ call' = NoCall
    /\ UNCHANGED otherVars
    /\ UNCHANGED <<now, sinceWrite, cancelled, framesChan, stdout>>
    /\ UNCHANGED <<currentFrame, status, sleepUntil, lastDeq, drainSeen, skipped,
                   enqAtDrain, lastWrite, allReady>>
    /\ UNCHANGED mainVars
    /\ UNCHANGED producerVars

\* faulty variant: a return that first flushes the held frame to the device
ConsumerCancelLoopFlush ==
    /\ cpc = "LoopTop"
    /\ cancelled
    /\ cpc' = "Done"
    /\ stdout' = stdout \cup {"Writer: Stopping"}
    /\ lastWrite' = WriteRecord
    /\ sinceWrite' = 0
    /\ call' = DacCall("WriteFrame", "outputLoop")
    /\ UNCHANGED otherVars
    /\ UNCHANGED <<now, cancelled, framesChan>>
    /\ UNCHANGED <<currentFrame, status, sleepUntil, lastDeq, drainSeen, skipped,
                   enqAtDrain, allReady>>
    /\ UNCHANGED mainVars
    /\ UNCHANGED producerVars

\* top of the loop, case <-ctx.Done(): print, return
ConsumerCancelLoop ==
    /\ cpc = "LoopTop"
    /\ cancelled
    /\ cpc' = "Done"
    /\ stdout' = stdout \cup {"Writer: Stopping"}
    /\ call' = NoCall
    /\ UNCHANGED otherVars
    /\ UNCHANGED <<now, sinceWrite, cancelled, framesChan>>
    /\ UNCHANGED <<currentFrame, status, sleepUntil, lastDeq, drainSeen, skipped,
                   enqAtDrain, lastWrite, allReady>>
    /\ UNCHANGED mainVars
    /\ UNCHANGED producerVars

\* faulty variant: an iteration that polls without draining the channel
ConsumerSkipDrain ==
    /\ cpc = "LoopTop"
    /\ ~cancelled
    /\ cpc' = "Poll"
    /\ drainSeen' = {}
    /\ call' = NoCall
    /\ UNCHANGED otherVars
    /\ UNCHANGED <<now, sinceWrite, cancelled, framesChan, stdout>>
    /\ UNCHANGED <<currentFrame, status, sleepUntil, lastDeq, skipped, enqAtDrain,
                   lastWrite, allReady>>
    /\ UNCHANGED mainVars
    /\ UNCHANGED producerVars

\* faulty variant: a select that may take its default while ctx.Done() is ready
ConsumerEnterDrainAnyway ==
    /\ cpc = "LoopTop"
    /\ cpc' = "Drain"
    /\ drainSeen' = {}
    /\ call' = NoCall
    /\ UNCHANGED otherVars
    /\ UNCHANGED <<now, sinceWrite, cancelled, framesChan, stdout>>
    /\ UNCHANGED <<currentFrame, status, sleepUntil, lastDeq, skipped, enqAtDrain,
                   lastWrite, allReady>>
    /\ UNCHANGED mainVars
    /\ UNCHANGED producerVars

\* top of the loop, default: fall through to DrainLoop
ConsumerEnterDrain ==
    /\ cpc = "LoopTop"
    /\ ~cancelled
    /\ cpc' = "Drain"
    /\ drainSeen' = {}
    /\ call' = NoCall
    /\ UNCHANGED otherVars
    /\ UNCHANGED <<now, sinceWrite, cancelled, framesChan, stdout>>
    /\ UNCHANGED <<currentFrame, status, sleepUntil, lastDeq, skipped, enqAtDrain,
                   lastWrite, allReady>>
    /\ UNCHANGED mainVars
    /\ UNCHANGED producerVars

\* DrainLoop, case f := <-framesChan: currentFrame = f
ConsumerDrainRecv ==
    /\ cpc = "Drain"
    /\ CanRecv(framesChan)
    /\ currentFrame' = RecvValue(framesChan)
    /\ lastDeq' = RecvValue(framesChan).idx
    /\ framesChan' = RecvRest(framesChan)
    /\ skipped' = skipped \cup drainSeen
    /\ drainSeen' = {RecvValue(framesChan).idx}
    /\ call' = NoCall
    /\ UNCHANGED otherVars
    /\ UNCHANGED <<now, sinceWrite, cancelled, stdout>>
    /\ UNCHANGED <<cpc, status, sleepUntil, enqAtDrain, lastWrite, allReady>>
    /\ UNCHANGED mainVars
    /\ UNCHANGED producerVars

\* faulty variant: a drain that may stop while frames are still queued
DrainDefaultAnytime(ch) == TRUE

\* the select's default is taken only when no receive is ready
DrainDefault(ch) == ~CanRecv(ch)

\* DrainLoop, default: break DrainLoop
ConsumerDrainExit ==
    /\ cpc = "Drain"
    /\ DrainDefault(framesChan)
    /\ cpc' = "Poll"
    /\ enqAtDrain' = enqueued
    /\ call' = NoCall
    /\ UNCHANGED otherVars
    /\ UNCHANGED <<now, sinceWrite, cancelled, framesChan, stdout>>
    /\ UNCHANGED <<currentFrame, status, sleepUntil, lastDeq, drainSeen, skipped,
                   lastWrite, allReady>>
    /\ UNCHANGED mainVars
    /\ UNCHANGED producerVars

\* faulty variant: a not-ready poll that goes back to the top without sleeping
ConsumerPollNoSleep ==
    /\ cpc = "Poll"
    /\ \E s \in StatusValues :
        /\ status' = s
        /\ allReady' = (allReady /\ s = 1)
        /\ cpc' = IF s = 1 THEN "Write" ELSE "LoopTop"
    /\ call' = DacCall("GetStatus", "outputLoop")
    /\ UNCHANGED otherVars
    /\ UNCHANGED <<now, sinceWrite, cancelled, framesChan, stdout>>
    /\ UNCHANGED <<currentFrame, sleepUntil, lastDeq, drainSeen, skipped, enqAtDrain,
                   lastWrite>>
    /\ UNCHANGED mainVars
    /\ UNCHANGED producerVars

\* status := dac.GetStatus(0); on status != 1 the time.Sleep(1ms) starts
ConsumerPoll ==
    /\ cpc = "Poll"
    /\ \E s \in StatusValues :
        /\ status' = s
        /\ allReady' = (allReady /\ s = 1)
        /\ cpc' = IF s = 1 THEN "Write" ELSE "Sleep"
        /\ sleepUntil' = IF s = 1 THEN sleepUntil ELSE now + Periods(SleepMs)
    /\ call' = DacCall("GetStatus", "outputLoop")
    /\ UNCHANGED otherVars
    /\ UNCHANGED <<now, sinceWrite, cancelled, framesChan, stdout>>
    /\ UNCHANGED <<currentFrame, lastDeq, drainSeen, skipped, enqAtDrain, lastWrite>>
    /\ UNCHANGED mainVars
    /\ UNCHANGED producerVars

\* dac.WriteFrame(0, PPS, 0, currentFrame)
ConsumerWrite ==
    /\ cpc = "Write"
    /\ cpc' = "LoopTop"
    /\ lastWrite' = WriteRecord
    /\ sinceWrite' = 0
    /\ call' = DacCall("WriteFrame", "outputLoop")
    /\ UNCHANGED otherVars
    /\ UNCHANGED <<now, cancelled, framesChan, stdout>>
    /\ UNCHANGED <<currentFrame, status, sleepUntil, lastDeq, drainSeen, skipped,
                   enqAtDrain, allReady>>
    /\ UNCHANGED mainVars
    /\ UNCHANGED producerVars

\* time.Sleep(1 * time.Millisecond) returns
ConsumerWake ==
    /\ cpc = "Sleep"
    /\ TimeUp(sleepUntil)
    /\ cpc' = "LoopTop"
    /\ sleepUntil' = 0
    /\ call' = NoCall
    /\ UNCHANGED otherVars
    /\ UNCHANGED <<now, sinceWrite, cancelled, framesChan, stdout>>
    /\ UNCHANGED <<currentFrame, status, lastDeq, drainSeen, skipped,
                   enqAtDrain, lastWrite, allReady>>
    /\ UNCHANGED mainVars
    /\ UNCHANGED producerVars

(***************************************************************************)
(* The pipeline.                                                           *)
(***************************************************************************)
Main == MainOpen \/ MainSetup \/ MainAfterLoop \/ MainStop \/ MainClose

Producer ==
    ProducerStart \/ ProducerTick \/ ProducerCancelWait \/ ProducerSend
    \/ ProducerCancelSend

Consumer ==
    ConsumerStart \/ ConsumerFirstFrame \/ ConsumerCancelFirst \/ ConsumerCancelLoop
    \/ ConsumerEnterDrain \/ ConsumerDrainRecv \/ ConsumerDrainExit \/ ConsumerPoll
    \/ ConsumerWrite \/ ConsumerWake

Next == Main \/ Signal \/ Advance \/ TickerFire \/ Producer \/ Consumer

Spec == Init /\ [][Next]_vars

\* Scheduling: every goroutine that can take a step eventually takes one, a
\* select whose ctx.Done() case stays ready eventually takes it, time passes
\* and the ticker fires.  Each goroutine is followed to its return: main
\* returning (after its 100 ms sleep, Stop and CloseDevices) does not cut
\* generateFrames short.
FairSpec ==
    /\ Spec
    /\ WF_vars(Main)
    /\ WF_vars(Advance)
    /\ WF_vars(TickerFire)
    /\ WF_vars(ProducerStart)
    /\ WF_vars(ProducerCancelWait \/ ProducerCancelSend)
    /\ WF_vars(Consumer)

(***************************************************************************)
(* Properties of the pipeline.                                             *)
(***************************************************************************)

\* C1 as stated: at the moment of a WriteFrame call the written frame is the
\* most recent frame generateFrames has enqueued (no frame enqueued later
\* exists, in the channel or received).
C1_WrittenIsNewestEnqueued ==
    lastWrite # NoWrite => lastWrite.idx = lastWrite.enq

\* C1 amended: the frame passed to WriteFrame is the most recent frame
\* enqueued at the moment the drain loop of that iteration found the channel
\* empty; no later frame has been received by then, and the frames enqueued
\* between the drain and the write (at most ChanCap) are still in the channel.
C1_WrittenIsNewestAtDrain ==
    lastWrite # NoWrite =>
        /\ lastWrite.idx = lastWrite.drainEnq
        /\ lastWrite.idx = lastWrite.deq
        /\ lastWrite.idx <= lastWrite.enq
        /\ lastWrite.enq - lastWrite.idx <= ChanCap

C1_Witness ==
    /\ lastWrite.idx >= 2
    /\ lastWrite.enq > lastWrite.idx
    /\ call = DacCall("WriteFrame", "outputLoop")

\* C2: when the drain loop has exited, the channel was seen empty (every frame
\* enqueued by then has been received) and currentFrame is the frame received
\* last; a frame received during a drain pass and replaced in it is older than
\* currentFrame and is never passed to WriteFrame.
C2_DrainKeepsNewest ==
    /\ cpc \in {"Poll", "Write", "Sleep"} =>
        /\ currentFrame.idx = enqAtDrain
        /\ currentFrame.idx = lastDeq
    /\ lastWrite.idx \notin skipped
    /\ \A i \in skipped : i < currentFrame.idx

C2_Witness ==
    /\ cpc = "Poll"
    /\ skipped # {}
    /\ lastWrite # NoWrite
    /\ lastWrite.idx > 1

\* C3 as stated: with a device that always reports ready, two consecutive
\* WriteFrame calls are at least 0.9 x frameDuration apart, frameDuration being
\* len / PPS of the frame written first (gap periods are gap / FrameRate s).
C3_MinInterWriteInterval ==
    (allReady /\ lastWrite.gap >= 0) =>
        lastWrite.gap * PPS * 10 >= 9 * lastWrite.prevLen * FrameRate

\* C4: the channel never holds more than ChanCap frames and generateFrames
\* never holds more than one compiled frame that is not enqueued.
C4_BoundedFrames ==
    /\ Len(framesChan) <= ChanCap
    /\ Cardinality(held) <= 1
    /\ produced - lastDeq <= ChanCap + 1

C4_Witness ==
    /\ Len(framesChan) = ChanCap
    /\ Cardinality(held) = 1
    /\ ppc = "Send"
    /\ ~cancelled

\* C5 as stated, in the case it singles out: while cancellation has not been
\* signalled and generateFrames is blocked sending on the full channel, no tick
\* of the ticker is lost.
C5_NoTickLost ==
    [][(~cancelled /\ ppc = "Send" /\ ~CanSend(framesChan)) => dropped' = dropped]_vars

\* C5 amended: every tick generateFrames receives yields exactly one compiled
\* frame, which is enqueued before the next tick is received unless
\* cancellation ends the blocked send; the ticker keeps at most one tick that
\* is not yet received and discards the ticks that fire meanwhile.
C5_ReceivedTicksEnqueued ==
    /\ ticksFired = produced + tickerC + dropped
    /\ tickerC <= TickerCap
    /\ produced = enqueued + Cardinality(held)
    /\ ppc = "WaitTick" => held = {}
    /\ ppc = "Send" => Cardinality(held) = 1
    /\ held # {} => (ppc = "Send" \/ (ppc = "Done" /\ cancelled))

C5_Witness ==
    /\ dropped > 0
    /\ ~cancelled
    /\ ppc = "WaitTick"
    /\ enqueued > ChanCap

C7_CancelReturnsWithoutCall ==
    [][(cpc # "Done" /\ cpc' = "Done") =>
          /\ cancelled
          /\ cpc \in {"AwaitFirst", "LoopTop"}
          /\ call' = NoCall
          /\ lastWrite' = lastWrite]_vars

C7_Witness ==
    /\ cpc = "Done"
    /\ mpc = "Running"
    /\ lastWrite # NoWrite
    /\ "Writer: Stopping" \in stdout

\* C8 as stated: a negative GetStatus is surfaced as a hardware error: when
\* outputLoop has taken the not-ready branch on a negative status, a line
\* reporting it has been printed.
C8_NegativeStatusSurfaced ==
    (cpc = "Sleep" /\ status < 0) => (stdout \ LifecycleLines) # {}

\* C9: outputLoop makes no DAC call before it has received its first frame,
\* and every frame passed to WriteFrame is a non-empty frame compiled by
\* generateFrames, written with a rate above 0.
C9_WritesOnlyProducedFrames ==
    /\ call.by = "outputLoop" => currentFrame # NilFrame
    /\ cpc \in {"NotStarted", "Start", "AwaitFirst"} =>
        (lastWrite = NoWrite /\ call.by # "outputLoop")
    /\ lastWrite # NoWrite =>
        /\ lastWrite.len > 0
        /\ lastWrite.pps > 0
        /\ lastWrite.idx \in 1..produced
        /\ lastWrite.len = CompileFrame(lastWrite.idx).len

C9_Witness ==
    /\ call = DacCall("WriteFrame", "outputLoop")
    /\ lastWrite.idx = 1
    /\ produced = 1

\* C10: frames are received in the order they were enqueued (each received
\* frame is the successor of the one received before), so the frames held and
\* written by outputLoop never go back in production order.
C10_FramesInOrder ==
    [][/\ (lastDeq' # lastDeq => lastDeq' = lastDeq + 1)
       /\ currentFrame'.idx >= currentFrame.idx
       /\ lastWrite'.idx >= lastWrite.idx]_vars

C10_Witness ==
    /\ lastWrite.idx = 3
    /\ 2 \in skipped
    /\ call = DacCall("WriteFrame", "outputLoop")

\* C23 as stated: dac.Stop(0) and dac.CloseDevices() are called only when
\* cancellation has completed, that is when outputLoop and generateFrames have
\* both returned.
C23_StopAfterBothTerminated ==
    call.op \in {"Stop", "CloseDevices"} =>
        (cancelled /\ cpc = "Done" /\ ppc = "Done")

\* C24: a GetStatus call is made only at the poll of an iteration and leaves
\* outputLoop about to write (status 1) or asleep for SleepMs (any other
\* status); outputLoop leaves the sleep only when it has elapsed and leaves the
\* write position only by the WriteFrame call, so between two GetStatus calls
\* there is always a sleep or a WriteFrame.
C24_SleepBetweenPolls ==
    [][/\ call' = DacCall("GetStatus", "outputLoop") =>
            /\ cpc = "Poll"
            /\ cpc' = IF status' = 1 THEN "Write" ELSE "Sleep"
            /\ status' # 1 => sleepUntil' = now + Periods(SleepMs)
       /\ (cpc = "Sleep" /\ cpc' # "Sleep") => (TimeUp(sleepUntil) /\ cpc' = "LoopTop")
       /\ (cpc = "Write" /\ cpc' # "Write") =>
            call' = DacCall("WriteFrame", "outputLoop")]_vars

C24_Witness ==
    /\ cpc = "Poll"
    /\ status # 1
    /\ ~allReady
    /\ lastWrite # NoWrite
    /\ ~cancelled

\* C26: while cancellation has not been signalled, generateFrames blocked
\* sending on the full channel eventually finds room in it (or cancellation is
\* signalled), whatever statuses the device reports; in particular no state is
\* reached in which generateFrames and outputLoop wait for each other forever.
C26_BlockedSendGetsRoom ==
    (~cancelled /\ ppc = "Send" /\ ~CanSend(framesChan))
        ~> (cancelled \/ CanSend(framesChan))

C26_Witness ==
    /\ ~cancelled
    /\ ppc = "Send"
    /\ ~CanSend(framesChan)
    /\ cpc = "Sleep"
    /\ status < 0

\* C27: once cancellation is signalled, a WriteFrame call can only be the one
\* of the iteration in progress: it takes outputLoop to the top of the loop,
\* where no new iteration starts (outputLoop stays there or returns, with no
\* further call), and outputLoop stays returned.
C27_AtMostOneWriteAfterCancel ==
    [][cancelled =>
          /\ cancelled'
          /\ call' = DacCall("WriteFrame", "outputLoop") =>
                (cpc = "Write" /\ cpc' = "LoopTop")
          /\ cpc = "LoopTop" => (cpc' \in {"LoopTop", "Done"} /\ call'.by # "outputLoop")
          /\ cpc = "Done" => cpc' = "Done"]_vars

C27_Witness ==
    /\ cancelled
    /\ call = DacCall("WriteFrame", "outputLoop")
    /\ cpc = "LoopTop"
    /\ lastWrite.idx >= 2

(***************************************************************************)
(* Part 2: the dot generator, sdk/go/examples/dot/main.go.                 *)
(*                                                                         *)
(* The program computes in float64.  The model computes the same values in *)
(* integers: durations in nanoseconds (time.Duration), sample counts by    *)
(* exact rational arithmetic, coordinates by the truncation uint16()       *)
(* performs.  Two places are not exact and are stated where they occur:    *)
(* the travel distance is kept to 1/8 coordinate unit, and the ring's      *)
(* interior samples use a rational approximation of sin and cos (they lie  *)
(* on the circle to within one percent of the radius; an eased position    *)
(* that is a whole number can come out one lower in float64).  The ring's  *)
(* closing sample, at theta = 2*pi, is computed as float64 computes it.    *)
(***************************************************************************)
galvoBitDepth == 12

galvoFullScale == 2 ^ galvoBitDepth

galvoMaxCoord == galvoFullScale - 1

\* time.Duration values, in nanoseconds
stepResponseSmallAngle == 250000

stepResponseLargeAngle == 1000000

settleTime == 150000

targetFrameTime == 15000000

targetBufferPoints == 2000

\* getFeaturePoints: the least number of samples left for drawing, and of the ring
minRingPoints == 10

\* helios.Point
Point(X, Y, R, G, B, I) == [X |-> X, Y |-> Y, R |-> R, G |-> G, B |-> B, I |-> I]

BlankPoint(X, Y) == Point(X, Y, 0, 0, 0, 0)

LitPoint(X, Y) == Point(X, Y, 255, 255, 255, 255)

IsBlank(p) == p.R = 0 /\ p.G = 0 /\ p.B = 0 /\ p.I = 0

IsLit(p) == p.R = 255 /\ p.G = 255 /\ p.B = 255 /\ p.I = 255

Abs(a) == IF a >= 0 THEN a ELSE -a

\* int(a / b) for b > 0: Go's float-to-int conversion truncates toward zero
TruncDiv(a, b) == IF a >= 0 THEN a \div b ELSE -((-a) \div b)

\* the largest s in lo..hi with s * s <= v
RECURSIVE IsqrtIn(_, _, _)
IsqrtIn(v, lo, hi) ==
    IF lo >= hi THEN lo
    ELSE LET mid == (lo + hi + 1) \div 2
         IN IF mid * mid <= v THEN IsqrtIn(v, mid, hi) ELSE IsqrtIn(v, lo, mid - 1)

\* the outcomes of uint16(v) for a float64 whose integer part is v: v itself
\* when it is representable; otherwise the result is implementation-dependent
\* (Go specification, Conversions), here the two's-complement wrap-around or
\* the saturated value
Uint16Outcomes == {"wrap", "saturate"}

Uint16(v, conv) ==
    IF v >= 0 /\ v < 65536 THEN v
    ELSE IF conv = "wrap" THEN v % 65536
    ELSE IF v < 0 THEN 0 ELSE 65535

\* int(math.Ceil(d.Seconds() * float64(pps))) for a duration of d nanoseconds
CeilSamples(d, pps) ==
    LET q == Abs(pps)
        hi == (d \div 1000) * q
        lo == (d % 1000) * q
        n == hi + (lo \div 1000)
        whole == (lo % 1000 = 0) /\ (n % 1000000 = 0)
        fl == n \div 1000000
    IN IF pps >= 0 THEN (IF whole THEN fl ELSE fl + 1) ELSE -fl

\* reqTime: small-angle time plus the large-angle share for the distance
\* travelled, math.Hypot taken to 1/8 unit, ratio clamped to 1.0
ReqTime(startX, startY, endX, endY) ==
    LET dx == Abs(endX - startX)
        dy == Abs(endY - startY)
        far == dx >= galvoFullScale \/ dy >= galvoFullScale
        dist8 == IF far THEN 8 * galvoFullScale
                 ELSE IsqrtIn(64 * (dx * dx + dy * dy), 0, 46340)
        span == stepResponseLargeAngle - stepResponseSmallAngle
    IN IF dist8 >= 8 * galvoFullScale THEN stepResponseSmallAngle + span
       ELSE stepResponseSmallAngle
            + ((span \div 16) * dist8) \div ((8 * galvoFullScale) \div 16)

\* faulty variant: an easing loop that stops one step short of t = 1
EasedShort(from, to, k, n) ==
    from + ((to - from) * ((k - 1) * (k - 1) * (3 * n - 2 * (k - 1)))) \div (n * n * n)

\* uint16(from + (to - from) * alpha) with t = k / n and alpha = t*t*(3 - 2t),
\* that is alpha = k*k*(3n - 2k) / n^3; the value lies between from and to,
\* so its integer part is its floor
Eased(from, to, k, n) ==
    from + ((to - from) * (k * k * (3 * n - 2 * k))) \div (n * n * n)

\* travelPoints and settlePoints of getTravelPoints, each floored at 1
TravelCount(startX, startY, endX, endY, pps) ==
    LET c == CeilSamples(ReqTime(startX, startY, endX, endY), pps)
    IN IF c < 1 THEN 1 ELSE c

SettleCount(pps) ==
    LET c == CeilSamples(settleTime, pps)
    IN IF c < 1 THEN 1 ELSE c

getTravelPoints(startX, startY, endX, endY, pps) ==
    LET travelPoints == TravelCount(startX, startY, endX, endY, pps)
        settlePoints == SettleCount(pps)
    IN [k \in 1..travelPoints |->
            BlankPoint(Eased(startX, endX, k, travelPoints),
                       Eased(startY, endY, k, travelPoints))]
       \o [k \in 1..settlePoints |-> BlankPoint(endX, endY)]

\* math.Sin(2*math.Pi) is -2.449e-16 and not 0: its size in units of 2^-64
SinTwoPiE64 == 4518

\* half the distance from c down to the next float64 below it, in units of
\* 2^-64, for 1 <= c < 65536
RECURSIVE HalfGapBelow(_, _)
HalfGapBelow(c, pow) ==
    IF c = pow THEN pow * 1024
    ELSE IF c < 2 * pow THEN pow * 2048
    ELSE HalfGapBelow(c, 2 * pow)

\* the integer part of c + r * math.Sin(2*math.Pi): the sum rounds to c when
\* the product is under half the gap between float64 values at c, and falls
\* below c otherwise
ClosingCoord(c, r) ==
    IF r <= 0 \/ c = 0 THEN c
    ELSE IF r * SinTwoPiE64 > HalfGapBelow(c, 1) THEN c - 1 ELSE c

\* sin of a/1024 of a turn as a fraction <<sign, num, den>>, by Bhaskara's
\* approximation sin(pi*s) = 16 s (1 - s) / (5 - 4 s (1 - s))
SinPhase(a) ==
    LET h == a % 512
        u == h * (1024 - 2 * h)
    IN <<IF a % 1024 < 512 THEN 1 ELSE -1, 4 * u, 655360 - u>>

CosPhase(a) == SinPhase(a + 256)

\* the integer part of c + r * f for a fraction f = <<sign, num, den>>
Offset(c, r, f) ==
    LET m == Abs(r) * f[2]
        neg == (r < 0) # (f[1] < 0)
        fl == m \div f[3]
        ce == (m + f[3] - 1) \div f[3]
    IN IF ~neg THEN c + fl
       ELSE IF ce <= c THEN c - ce
       ELSE c - fl

\* the ring sample i of ringPts: theta = 2*pi*i/ringPts
RingPoint(cx, cy, dotRadius, i, ringPts, conv) ==
    IF i = ringPts
    THEN LitPoint(Uint16(cx + dotRadius, conv), Uint16(ClosingCoord(cy, dotRadius), conv))
    ELSE LET a == (1024 * i) \div ringPts
         IN LitPoint(Uint16(Offset(cx, dotRadius, CosPhase(a)), conv),
                     Uint16(Offset(cy, dotRadius, SinPhase(a)), conv))

\* faulty variant: a ring that takes only what the budget leaves
RingCountNoFloor(availableForDrawing, travelLen) == availableForDrawing - travelLen

\* ringPts: what the budget leaves after the travel, floored at minRingPoints
RingCount(availableForDrawing, travelLen) ==
    IF availableForDrawing - travelLen < minRingPoints THEN minRingPoints
    ELSE availableForDrawing - travelLen

getFeaturePoints(cx, cy, dotRadius, pointBudget, pps, conv) ==
    LET availableForDrawing == pointBudget - 1
        ringStartX == Uint16(cx + dotRadius, conv)
        travel == getTravelPoints(cx, cy, ringStartX, cy, pps)
        ringPts == RingCount(availableForDrawing, Len(travel))
    IN IF availableForDrawing < minRingPoints THEN <<>>
       ELSE travel \o [i \in 1..ringPts |-> RingPoint(cx, cy, dotRadius, i, ringPts, conv)]

\* main: pointBudget and featureBudget
PointBudget(pps) == TruncDiv((targetFrameTime \div 1000000) * pps, 1000)

FeatureBudget(pps) == TruncDiv(8 * PointBudget(pps), 10)

\* main's input check
FlagsValid(f) ==
    f.x >= 0 /\ f.x <= galvoMaxCoord /\ f.y >= 0 /\ f.y <= galvoMaxCoord

(***************************************************************************)
(* The flags the dot generator is started with.                            *)
(***************************************************************************)
DotXs == {-1, 0, 100, 2048, 4095, 4096}

DotYs == {0, 100, 2048, 4096}

DotRadii == {0, 84, 3000}

DotRates == {-1, 0, 900, 950, 1000, 20000, 50000}

DotInit ==
    /\ PipelineInit
    /\ CallIdle
    /\ LoopIdle
    /\ dpc = "CheckInput"
    /\ flags \in [x : DotXs, y : DotYs, radius : DotRadii, pps : DotRates]
    /\ points = <<>>
    /\ singleLoop = <<>>

\* main: flag.Parse and the bounds check on x and y; log.Fatalf ends the program
DotCheckInput ==
    /\ dpc = "CheckInput"
    /\ dpc' = IF FlagsValid(flags) THEN "Compile" ELSE "Fatal"
    /\ UNCHANGED <<flags, points, singleLoop>>
    /\ UNCHANGED pipelineVars
    /\ UNCHANGED callVars
    /\ UNCHANGED loopVars

\* main: the budgets and the call of getFeaturePoints
DotCompile ==
    /\ dpc = "Compile"
    /\ \E conv \in Uint16Outcomes :
        points' = getFeaturePoints(flags.x, flags.y, flags.radius,
                                   FeatureBudget(flags.pps), flags.pps, conv)
    /\ dpc' = "Flyback"
    /\ UNCHANGED <<flags, singleLoop>>
    /\ UNCHANGED pipelineVars
    /\ UNCHANGED callVars
    /\ UNCHANGED loopVars

\* main: the flyback from the last sample to the rest position, appended when
\* the feature is not empty
DotFlyback ==
    /\ dpc = "Flyback"
    /\ points' =
        IF Len(points) > 0
        THEN points \o getTravelPoints(points[Len(points)].X, points[Len(points)].Y,
                                       flags.x, flags.y, flags.pps)
        ELSE points
    /\ dpc' = "CopyLoop"
    /\ UNCHANGED <<flags, singleLoop>>
    /\ UNCHANGED pipelineVars
    /\ UNCHANGED callVars
    /\ UNCHANGED loopVars

\* main: singleLoop is a copy of the compiled frame
DotCopyLoop ==
    /\ dpc = "CopyLoop"
    /\ singleLoop' = points
    /\ dpc' = "PadLoop"
    /\ UNCHANGED <<flags, points>>
    /\ UNCHANGED pipelineVars
    /\ UNCHANGED callVars
    /\ UNCHANGED loopVars

\* the padding loop's test
NeedsPadding(p) == Len(p) < targetBufferPoints

\* faulty variant: an iteration that cuts the buffer at the target length
DotPadStepCut ==
    /\ dpc = "PadLoop"
    /\ NeedsPadding(points)
    /\ LET q == points \o singleLoop
       IN points' = IF Len(q) > targetBufferPoints
                    THEN SubSeq(q, 1, targetBufferPoints) ELSE q
    /\ UNCHANGED <<dpc, flags, singleLoop>>
    /\ UNCHANGED pipelineVars
    /\ UNCHANGED callVars
    /\ UNCHANGED loopVars

\* main: one iteration of the padding loop
DotPadStep ==
    /\ dpc = "PadLoop"
    /\ NeedsPadding(points)
    /\ points' = points \o singleLoop
    /\ UNCHANGED <<dpc, flags, singleLoop>>
    /\ UNCHANGED pipelineVars
    /\ UNCHANGED callVars
    /\ UNCHANGED loopVars

\* main: the padding loop exits; the frame is the one main writes from now on
DotPadExit ==
    /\ dpc = "PadLoop"
    /\ ~NeedsPadding(points)
    /\ dpc' = "Assembled"
    /\ UNCHANGED <<flags, points, singleLoop>>
    /\ UNCHANGED pipelineVars
    /\ UNCHANGED callVars
    /\ UNCHANGED loopVars

DotNext ==
    DotCheckInput \/ DotCompile \/ DotFlyback \/ DotCopyLoop \/ DotPadStep
    \/ DotPadExit

DotSpec == DotInit /\ [][DotNext]_vars

(***************************************************************************)
(* Part 3: single functions under call.  A behaviour is one call: the      *)
(* initial state holds the arguments, the step makes the call.             *)
(***************************************************************************)
\* PPS of the advanced pattern program (the second program of simple/main.go)
AdvancedPPS == 30000

\* int(float64(PPS) * duration.Seconds()) for a duration of d nanoseconds
TruncSamples(d, pps) ==
    LET hi == (Abs(d) \div 1000) * pps
        lo == (Abs(d) % 1000) * pps
        fl == (hi + (lo \div 1000)) \div 1000000
    IN IF d >= 0 THEN fl ELSE -fl

\* GenerateDwell: the sample emitted at every index
DwellPoint(pos, on) ==
    IF on THEN pos ELSE Point(pos.X, pos.Y, 0, 0, 0, 0)

GenerateDwell(pos, duration, on) ==
    LET c == TruncSamples(duration, AdvancedPPS)
        numPoints == IF c < 1 THEN 1 ELSE c
    IN [i \in 1..numPoints |-> DwellPoint(pos, on)]

\* GenerateLine: numPoints, floored at 1
LineCount(duration) ==
    LET c == TruncSamples(duration, AdvancedPPS)
    IN IF c < 1 THEN 1 ELSE c

\* t := float64(i) / float64(numPoints-1) for the sample of index i (from 0):
\* the quotient num / den, or NaN (0.0 / 0.0) when numPoints is 1
LineParam(i, numPoints) ==
    [nan |-> (numPoints = 1), num |-> i, den |-> numPoints - 1]

\* the values uint16() can give for NaN, which the language leaves to the
\* implementation
NaNCoords == {0, 65535}

\* uint16(math.Round(from + t*(to - from))): the nearest whole number, halves
\* rounded up (the value is not negative); NaN stays NaN through the sum and
\* math.Round
LineCoord(from, to, t, nanCoord) ==
    IF t.nan THEN nanCoord
    ELSE (2 * (from * t.den + t.num * (to - from)) + t.den) \div (2 * t.den)

GenerateLine(start, end, duration, on, nanCoord) ==
    LET numPoints == LineCount(duration)
    IN [k \in 1..numPoints |->
          LET t == LineParam(k - 1, numPoints)
              x == LineCoord(start.X, end.X, t, nanCoord)
              y == LineCoord(start.Y, end.Y, t, nanCoord)
          IN IF on THEN Point(x, y, end.R, end.G, end.B, end.I)
             ELSE Point(x, y, 0, 0, 0, 0)]

\* the padding loop of the dot generator's main, run on a frame p
RECURSIVE PadLoop(_, _)
PadLoop(p, single) ==
    IF NeedsPadding(p) THEN PadLoop(p \o single, single) ELSE p

\* faulty variant: a padding step that appends before it tests
PadFrameAppendFirst(p) == PadLoop(p \o p, p)

\* main: singleLoop is a copy of the frame, then the padding loop
PadFrame(p) == PadLoop(p, p)

\* the frame the dot generator compiles before padding: feature and flyback
DotFrame(f) ==
    LET ft == getFeaturePoints(f.x, f.y, f.radius, FeatureBudget(f.pps), f.pps, "wrap")
    IN IF Len(ft) > 0
       THEN ft \o getTravelPoints(ft[Len(ft)].X, ft[Len(ft)].Y, f.x, f.y, f.pps)
       ELSE ft

\* the arguments drawn
TravelCoords == {0, 1, 2048, 4095}

TravelRates == {-1, 0, 1, 1000, 50000}

\* durations in nanoseconds
(***************************************************************************)
(* The easing of getTravelPoints in float64.  A float64 that is not        *)
(* negative is a record [m, e]: the whole number m divided by 2^e, m being *)
(* a sequence of limbs (digits to the base 2^10, the least significant     *)
(* first).  Every operation gives the exact result rounded to 53           *)
(* significant bits, ties to even, as IEEE 754 does.                       *)
(***************************************************************************)
\* number of significant bits of a float64
mantissaBits == 53

\* bits of a limb, and the base
limbBits == 10

limbBase == 2 ^ limbBits

\* limbs of a quotient computed before rounding
quotientLimbs == 7

\* largest travelPoints for which the easing is evaluated
MaxGrid == 6

RECURSIVE LimbAdd(_, _, _)
\* a + b + c, c a carry
LimbAdd(a, b, c) ==
    IF a = <<>> /\ b = <<>> THEN (IF c > 0 THEN <<c>> ELSE <<>>)
    ELSE LET x == IF a = <<>> THEN 0 ELSE Head(a)
             y == IF b = <<>> THEN 0 ELSE Head(b)
         IN <<(x + y + c) % limbBase>>
            \o LimbAdd(IF a = <<>> THEN a ELSE Tail(a),
                       IF b = <<>> THEN b ELSE Tail(b), (x + y + c) \div limbBase)

RECURSIVE LimbSub(_, _, _)
\* a - b - c for a >= b + c, c a borrow
LimbSub(a, b, c) ==
    IF a = <<>> THEN <<>>
    ELSE LET y == IF b = <<>> THEN 0 ELSE Head(b)
             d == Head(a) - y - c
         IN <<d % limbBase>>
            \o LimbSub(Tail(a), IF b = <<>> THEN b ELSE Tail(b),
                       IF d < 0 THEN 1 ELSE 0)

RECURSIVE LimbScale(_, _, _)
\* a * d + c for a limb d
LimbScale(a, d, c) ==
    IF a = <<>> THEN (IF c > 0 THEN <<c>> ELSE <<>>)
    ELSE <<(Head(a) * d + c) % limbBase>>
         \o LimbScale(Tail(a), d, (Head(a) * d + c) \div limbBase)

RECURSIVE LimbMul(_, _)
LimbMul(a, b) ==
    IF b = <<>> THEN <<>>
    ELSE LimbAdd(LimbScale(a, Head(b), 0), <<0>> \o LimbMul(a, Tail(b)), 0)

RECURSIVE Trim(_)
\* a without its leading zero limbs
Trim(a) ==
    IF a = <<>> \/ a[Len(a)] # 0 THEN a ELSE Trim(SubSeq(a, 1, Len(a) - 1))

\* the limb a[i], 0 beyond the length of a
Limb(a, i) == IF i <= Len(a) THEN a[i] ELSE 0

\* the bit of a that stands for 2^i
Bit(a, i) == (Limb(a, i \div limbBits + 1) \div (2 ^ (i % limbBits))) % 2

\* number of bits of a, for a without leading zero limbs
BitLen(a) ==
    IF a = <<>> THEN 0
    ELSE limbBits * (Len(a) - 1)
         + (CHOOSE b \in 1..limbBits : 2 ^ (b - 1) <= a[Len(a)] /\ a[Len(a)] < 2 ^ b)

\* a times 2^d
ShiftLeft(a, d) ==
    [i \in 1..(d \div limbBits) |-> 0] \o LimbScale(a, 2 ^ (d % limbBits), 0)

\* a divided by 2^d, the bits below dropped
ShiftRight(a, d) ==
    LET q == d \div limbBits
        r == d % limbBits
    IN Trim([j \in 1..(Len(a) - q) |->
                Limb(a, j + q) \div (2 ^ r)
                + (Limb(a, j + q + 1) % (2 ^ r)) * (2 ^ (limbBits - r))])

\* -1, 0 or 1 as a is below, equal to or above b
LimbCmp(a, b) ==
    LET n == IF Len(a) > Len(b) THEN Len(a) ELSE Len(b)
        diff == {i \in 1..n : Limb(a, i) # Limb(b, i)}
        top == CHOOSE i \in diff : \A j \in diff : j <= i
    IN IF diff = {} THEN 0 ELSE IF Limb(a, top) > Limb(b, top) THEN 1 ELSE -1

\* x and y brought to one denominator
Aligned(x, y) ==
    LET e == IF x.e > y.e THEN x.e ELSE y.e
    IN [a |-> ShiftLeft(x.m, e - x.e), b |-> ShiftLeft(y.m, e - y.e), e |-> e]

FloatCmp(x, y) == LimbCmp(Aligned(x, y).a, Aligned(x, y).b)

\* the exact sum and the exact distance of x and y
ExactSum(x, y) ==
    LET al == Aligned(x, y) IN [m |-> LimbAdd(al.a, al.b, 0), e |-> al.e]

ExactDist(x, y) ==
    LET al == Aligned(x, y)
    IN [m |-> IF LimbCmp(al.a, al.b) >= 0 THEN LimbSub(al.a, al.b, 0)
              ELSE LimbSub(al.b, al.a, 0),
        e |-> al.e]

\* x rounded to 53 significant bits, ties to even
Round(x) ==
    LET m == Trim(x.m)
        d == BitLen(m) - mantissaBits
        q == ShiftRight(m, d)
        up == Bit(m, d - 1) = 1
              /\ (Bit(q, 0) = 1 \/ \E i \in 0..(d - 2) : Bit(m, i) = 1)
    IN IF d <= 0 THEN [m |-> m, e |-> x.e]
       ELSE [m |-> IF up THEN LimbAdd(q, <<1>>, 0) ELSE q, e |-> x.e - d]

FloatMul(x, y) == Round([m |-> LimbMul(x.m, y.m), e |-> x.e + y.e])

\* x - y for x >= y
FloatSub(x, y) ==
    LET al == Aligned(x, y) IN Round([m |-> LimbSub(al.a, al.b, 0), e |-> al.e])

RECURSIVE QuotientLimbs(_, _, _)
\* the limbs j..quotientLimbs after the point of r / n, for r < n
QuotientLimbs(r, n, j) ==
    IF j > quotientLimbs THEN <<>>
    ELSE QuotientLimbs((limbBase * r) % n, n, j + 1) \o <<(limbBase * r) \div n>>

RECURSIVE QuotientRest(_, _, _)
\* what is left of r / n after those limbs
QuotientRest(r, n, j) ==
    IF j > quotientLimbs THEN r ELSE QuotientRest((limbBase * r) % n, n, j + 1)

\* float64(k) / float64(n) for whole numbers 0 <= k <= n, n >= 1: the quotient
\* to quotientLimbs limbs, one more bit that says whether anything is left,
\* rounded
FloatDiv(k, n) ==
    LET q == QuotientLimbs(k % n, n, 1) \o <<k \div n>>
        rest == IF QuotientRest(k % n, n, 1) = 0 THEN 0 ELSE 1
    IN Round([m |-> LimbAdd(LimbScale(q, 2, 0), <<rest>>, 0),
              e |-> limbBits * quotientLimbs + 1])

FloatZero == [m |-> <<>>, e |-> 0]

FloatOne == [m |-> <<1>>, e |-> 0]

FloatThree == [m |-> <<3>>, e |-> 0]

\* 2.0 * x, which is exact
Twice(x) == [m |-> x.m, e |-> x.e - 1]

\* the unit in the last place of a float64 in [1, 2): 2^-52
Ulp == [m |-> <<1>>, e |-> mantissaBits - 1]

\* faulty variant: an easing without the factor 2 of its cubic term
AlphaFlat(k, n) ==
    LET t == FloatDiv(k, n)
    IN FloatMul(FloatMul(t, t), FloatSub(FloatThree, t))

\* t := float64(k) / float64(travelPoints); alpha := t * t * (3.0 - 2.0*t)
Alpha(k, n) ==
    LET t == FloatDiv(k, n)
    IN FloatMul(FloatMul(t, t), FloatSub(FloatThree, Twice(t)))

DwellDurations ==
    {-1000, 0, 1000, 33334, 50000, 1000000, 1050000, 2000000, 5000000, 20000000}

DwellPositions ==
    {Point(1000, 1000, 0, 255, 0, 255), Point(2048, 3500, 0, 255, 0, 255),
     Point(3096, 1000, 0, 255, 0, 255), Point(0, 0, 0, 0, 0, 0)}

LineDurations == {0, 10000, 33334, 66667, 100000, 1000000, 5000000, 20000000}

PadFlags ==
    [x : {2048}, y : {100, 2048}, radius : {84}, pps : {1000, 20000, 50000}]

PadFrames == {DotFrame(f) : f \in PadFlags} \cup {PadFrame(DotFrame(f)) : f \in PadFlags}

\* helios.PointHighRes
PointHighRes(X, Y, R, G, B) == [X |-> X, Y |-> Y, R |-> R, G |-> G, B |-> B]

\* helios.PointExt
PointExt(X, Y, R, G, B, I, User1, User2, User3, User4) ==
    [X |-> X, Y |-> Y, R |-> R, G |-> G, B |-> B, I |-> I,
     User1 |-> User1, User2 |-> User2, User3 |-> User3, User4 |-> User4]

\* A DAC between NewDAC and Close, as the calls it has seen: d.cgo holds the
\* wrapper functions entered through cgo, d.sdk the frame writes handed to
\* the SDK's HeliosDac object.  A pointer to points is modelled by the points
\* it addresses; the null pointer addresses none.
\* static_cast<HeliosDac*>(h)->WriteFrame...(deviceIndex, pps, flags, points,
\* numPoints): the device write, which returns ret
SdkWrite(d, fn, deviceIndex, pps, flagBits, pts, numPoints, ret) ==
    [ret |-> ret,
     dac |-> [d EXCEPT !.sdk = Append(@, [fn |-> fn, deviceIndex |-> deviceIndex,
                                          pps |-> pps, flags |-> flagBits,
                                          points |-> pts,
                                          numPoints |-> numPoints])]]

HeliosDac_WriteFrame(d, deviceIndex, pps, flagBits, pts, numPoints, ret) ==
    LET h == [d EXCEPT !.cgo = Append(@, "HeliosDac_WriteFrame")]
    IN IF pts = <<>> \/ numPoints <= 0
       THEN [ret |-> 0, dac |-> h]
       ELSE SdkWrite(h, "WriteFrame", deviceIndex, pps, flagBits, pts, numPoints, ret)

HeliosDac_WriteFrameHighResolution(d, deviceIndex, pps, flagBits, pts, numPoints, ret) ==
    LET h == [d EXCEPT !.cgo = Append(@, "HeliosDac_WriteFrameHighResolution")]
    IN IF pts = <<>> \/ numPoints <= 0
       THEN [ret |-> 0, dac |-> h]
       ELSE SdkWrite(h, "WriteFrameHighResolution", deviceIndex, pps, flagBits, pts,
                     numPoints, ret)

HeliosDac_WriteFrameExtended(d, deviceIndex, pps, flagBits, pts, numPoints, ret) ==
    LET h == [d EXCEPT !.cgo = Append(@, "HeliosDac_WriteFrameExtended")]
    IN IF pts = <<>> \/ numPoints <= 0
       THEN [ret |-> 0, dac |-> h]
       ELSE SdkWrite(h, "WriteFrameExtended", deviceIndex, pps, flagBits, pts,
                     numPoints, ret)

\* faulty variant: a binding that hands every slice to the wrapper
WriteFrameNoGuard(d, deviceIndex, pps, flagBits, pts, ret) ==
    HeliosDac_WriteFrame(d, deviceIndex, pps, flagBits, pts, Len(pts), ret)

\* DAC.WriteFrame: &points[0] and len(points) go to the wrapper unless the
\* slice is empty
WriteFrame(d, deviceIndex, pps, flagBits, pts, ret) ==
    IF Len(pts) = 0
    THEN [ret |-> 0, dac |-> d]
    ELSE HeliosDac_WriteFrame(d, deviceIndex, pps, flagBits, pts, Len(pts), ret)

WriteFrameHighResolution(d, deviceIndex, pps, flagBits, pts, ret) ==
    IF Len(pts) = 0
    THEN [ret |-> 0, dac |-> d]
    ELSE HeliosDac_WriteFrameHighResolution(d, deviceIndex, pps, flagBits, pts,
                                            Len(pts), ret)

WriteFrameExtended(d, deviceIndex, pps, flagBits, pts, ret) ==
    IF Len(pts) = 0
    THEN [ret |-> 0, dac |-> d]
    ELSE HeliosDac_WriteFrameExtended(d, deviceIndex, pps, flagBits, pts,
                                      Len(pts), ret)

\* what the device write may return: success, nothing written, an error
SdkReturns == {1, 0, -1}

\* the slices the bindings are given, per point type
WriteSlices ==
    [WriteFrame |->
        {<<>>, <<Point(0, 0, 0, 0, 0, 0)>>,
         <<Point(2048, 2048, 255, 0, 0, 255), Point(4095, 0, 0, 255, 0, 255)>>},
     WriteFrameHighResolution |->
        {<<>>, <<PointHighRes(0, 0, 0, 0, 0)>>,
         <<PointHighRes(2048, 2048, 65535, 0, 0), PointHighRes(4095, 0, 0, 65535, 0)>>},
     WriteFrameExtended |->
        {<<>>, <<PointExt(0, 0, 0, 0, 0, 0, 0, 0, 0, 0)>>,
         <<PointExt(2048, 2048, 65535, 0, 0, 65535, 1, 2, 3, 4),
           PointExt(4095, 0, 0, 65535, 0, 65535, 0, 0, 0, 0)>>}]

\* the DAC before the call: fresh, or after an earlier frame
WriteDacs ==
    {[cgo |-> <<>>, sdk |-> <<>>],
     HeliosDac_WriteFrame([cgo |-> <<>>, sdk |-> <<>>], 0, 30000, 0,
                          <<Point(0, 0, 0, 0, 0, 0)>>, 1, 1).dac}

CallInit ==
    /\ PipelineInit
    /\ DotIdle
    /\ LoopIdle
    /\ result = NoResult
    /\ \/ /\ callee = "getTravelPoints"
          /\ args \in [startX : TravelCoords, startY : TravelCoords,
                       endX : TravelCoords, endY : TravelCoords, pps : TravelRates]
       \/ /\ callee = "GenerateDwell"
          /\ args \in [pos : DwellPositions, duration : DwellDurations, on : BOOLEAN]
       \/ /\ callee = "padding"
          /\ args \in [frame : PadFrames]
       \/ /\ callee = "GenerateLine"
          /\ args \in [start : DwellPositions, end : DwellPositions,
                       duration : LineDurations, on : BOOLEAN]
       \/ /\ callee = "alpha"
          /\ args \in {[k |-> k, travelPoints |-> n] : k \in 0..MaxGrid, n \in 1..MaxGrid}
          /\ args.k <= args.travelPoints
       \/ /\ callee = "WriteFrame"
          /\ \E fn \in DOMAIN WriteSlices :
                args \in [fn : {fn}, dac : WriteDacs, deviceIndex : {0, 1},
                          pps : {30000}, flags : {0, 1},
                          points : WriteSlices[fn]]

CallGetTravelPoints ==
    /\ callee = "getTravelPoints"
    /\ ~result.done
    /\ result' = [done |-> TRUE,
                  value |-> getTravelPoints(args.startX, args.startY, args.endX,
                                            args.endY, args.pps)]
    /\ UNCHANGED <<callee, args>>
    /\ UNCHANGED pipelineVars
    /\ UNCHANGED dotVars
    /\ UNCHANGED loopVars

CallGenerateDwell ==
    /\ callee = "GenerateDwell"
    /\ ~result.done
    /\ result' = [done |-> TRUE,
                  value |-> GenerateDwell(args.pos, args.duration, args.on)]
    /\ UNCHANGED <<callee, args>>
    /\ UNCHANGED pipelineVars
    /\ UNCHANGED dotVars
    /\ UNCHANGED loopVars

CallPadding ==
    /\ callee = "padding"
    /\ ~result.done
    /\ result' = [done |-> TRUE, value |-> PadFrame(args.frame)]
    /\ UNCHANGED <<callee, args>>
    /\ UNCHANGED pipelineVars
    /\ UNCHANGED dotVars
    /\ UNCHANGED loopVars

CallGenerateLine ==
    /\ callee = "GenerateLine"
    /\ ~result.done
    /\ \E nanCoord \in NaNCoords :
        result' = [done |-> TRUE,
                   value |-> GenerateLine(args.start, args.end, args.duration,
                                          args.on, nanCoord)]
    /\ UNCHANGED <<callee, args>>
    /\ UNCHANGED pipelineVars
    /\ UNCHANGED dotVars
    /\ UNCHANGED loopVars

\* the easing of one sample of getTravelPoints
CallAlpha ==
    /\ callee = "alpha"
    /\ ~result.done
    /\ result' = [done |-> TRUE, value |-> Alpha(args.k, args.travelPoints)]
    /\ UNCHANGED <<callee, args>>
    /\ UNCHANGED pipelineVars
    /\ UNCHANGED dotVars
    /\ UNCHANGED loopVars

\* one call of a frame-writing binding of the DAC
CallWriteFrame ==
    /\ callee = "WriteFrame"
    /\ ~result.done
    /\ \E ret \in SdkReturns :
        result' =
            [done |-> TRUE,
             value |->
                CASE args.fn = "WriteFrame" ->
                        WriteFrame(args.dac, args.deviceIndex, args.pps, args.flags,
                                   args.points, ret)
                  [] args.fn = "WriteFrameHighResolution" ->
                        WriteFrameHighResolution(args.dac, args.deviceIndex, args.pps,
                                                 args.flags, args.points, ret)
                  [] args.fn = "WriteFrameExtended" ->
                        WriteFrameExtended(args.dac, args.deviceIndex, args.pps,
                                           args.flags, args.points, ret)]
    /\ UNCHANGED <<callee, args>>
    /\ UNCHANGED pipelineVars
    /\ UNCHANGED dotVars
    /\ UNCHANGED loopVars

CallNext ==
    CallGetTravelPoints \/ CallGenerateDwell \/ CallPadding \/ CallGenerateLine
    \/ CallAlpha \/ CallWriteFrame

CallSpec == CallInit /\ [][CallNext]_vars

(***************************************************************************)
(* Part 4: the output loops that run on one goroutine: the playback loop   *)
(* of the dot generator (dot/main.go), the scanner and the advanced        *)
(* pattern (simple/main.go).  A behaviour starts at the program's          *)
(* dac.OpenDevices() call.  loop.ops holds the DAC operations called so    *)
(* far.  Time is counted in periods of the 1 ms ticker.                    *)
(***************************************************************************)
\* largest number of devices OpenDevices reports to the playback loop
MaxPlayDevices == 2

\* the flags whose assembled frames the playback loop is given
PlayFlags == [x : {2048}, y : {2048}, radius : {84}, pps : {50000, 100000}]

\* minReplayInterval = 0.9 x frameDuration = 0.9 x len / pps seconds, as the
\* smallest whole number of milliseconds that is not below it
MinReplayMs(len, pps) == (9 * len * 1000 + 10 * pps - 1) \div (10 * pps)

minReplayInterval == MinReplayMs(loop.len, loop.pps)

\* a duration in milliseconds, counted up to minReplayInterval
Elapsed(d) == IF d >= minReplayInterval THEN minReplayInterval ELSE d

\* the DAC operation op has been called
Called(op) == [loop EXCEPT !.ops = @ \cup {op}]

\* dot/main.go at its OpenDevices call: the frame is assembled, lastWriteTime
\* will be the zero Time (longer ago than any interval)
PlayInit ==
    /\ PipelineInit
    /\ DotIdle
    /\ CallIdle
    /\ lpc = "Open"
    /\ \E f \in PlayFlags :
        LET len == Len(PadFrame(DotFrame(f)))
        IN loop = [prog |-> "dot", len |-> len, pps |-> f.pps, numDevices |-> 0,
                   i |-> 0, anyWritten |-> FALSE, tick |-> FALSE,
                   since |-> MinReplayMs(len, f.pps),
                   sinceCall |-> MinReplayMs(len, f.pps),
                   gap |-> -1, written |-> <<>>, ops |-> {}]

\* numDevices := dac.OpenDevices(); with no device main prints and returns
PlayOpen ==
    /\ lpc = "Open"
    /\ loop.prog = "dot"
    /\ \E n \in 0..MaxPlayDevices :
        /\ loop' = [Called("OpenDevices") EXCEPT !.numDevices = n]
        /\ lpc' = IF n = 0 THEN "Returned" ELSE "Select"
    /\ UNCHANGED <<pipelineVars, dotVars, callVars>>

\* one millisecond passes, at the select or during a call; the ticker fires
\* (ticker.C keeps one tick)
PlayAdvance ==
    /\ loop.prog = "dot"
    /\ lpc \in {"Select", "Devices", "Write"}
    /\ loop' = [loop EXCEPT !.tick = TRUE,
                            !.since = Elapsed(@ + 1),
                            !.sinceCall = Elapsed(@ + 1)]
    /\ loop' # loop
    /\ UNCHANGED lpc
    /\ UNCHANGED <<pipelineVars, dotVars, callVars>>

\* faulty variant: a tick that goes to the devices whatever the time since
\* lastWriteTime
PlayTickNoCheck ==
    /\ lpc = "Select"
    /\ loop.prog = "dot"
    /\ loop.tick
    /\ lpc' = "Devices"
    /\ loop' = [loop EXCEPT !.tick = FALSE, !.i = 0, !.anyWritten = FALSE,
                            !.written = <<>>]
    /\ UNCHANGED <<pipelineVars, dotVars, callVars>>

\* case <-ticker.C: continue when lastWriteTime is less than minReplayInterval
\* ago, else anyWritten := false and the loop over the devices starts
PlayTick ==
    /\ lpc = "Select"
    /\ loop.prog = "dot"
    /\ loop.tick
    /\ IF loop.since < minReplayInterval
         THEN /\ lpc' = "Select"
              /\ loop' = [loop EXCEPT !.tick = FALSE]
         ELSE /\ lpc' = "Devices"
              /\ loop' = [loop EXCEPT !.tick = FALSE, !.i = 0, !.anyWritten = FALSE,
                                      !.written = <<>>]
    /\ UNCHANGED <<pipelineVars, dotVars, callVars>>

\* if dac.GetStatus(i) == 1
PlayPoll ==
    /\ lpc = "Devices"
    /\ loop.prog = "dot"
    /\ loop.i < loop.numDevices
    /\ \E s \in StatusValues :
        IF s = 1
          THEN /\ lpc' = "Write"
               /\ loop' = Called("GetStatus")
          ELSE /\ lpc' = "Devices"
               /\ loop' = [Called("GetStatus") EXCEPT !.i = @ + 1]
    /\ UNCHANGED <<pipelineVars, dotVars, callVars>>

\* dac.WriteFrame(i, pps, 0, points); anyWritten = true; loop.gap is the time
\* since the last WriteFrame call of an earlier tick
PlayWrite ==
    /\ lpc = "Write"
    /\ loop.prog = "dot"
    /\ lpc' = "Devices"
    /\ loop' = [Called("WriteFrame") EXCEPT
                   !.written = Append(@, loop.i),
                   !.gap = IF ~loop.anyWritten /\ "WriteFrame" \in loop.ops
                           THEN loop.sinceCall ELSE @,
                   !.sinceCall = 0,
                   !.anyWritten = TRUE,
                   !.i = @ + 1]
    /\ UNCHANGED <<pipelineVars, dotVars, callVars>>

\* the loop over the devices ends: if anyWritten { lastWriteTime = time.Now() }
PlayEndTick ==
    /\ lpc = "Devices"
    /\ loop.prog = "dot"
    /\ loop.i >= loop.numDevices
    /\ lpc' = "Select"
    /\ loop' = [loop EXCEPT !.since = IF loop.anyWritten THEN 0 ELSE @]
    /\ UNCHANGED <<pipelineVars, dotVars, callVars>>

\* case <-stop: running = false, the loop ends
PlayInterrupt ==
    /\ lpc = "Select"
    /\ loop.prog = "dot"
    /\ lpc' = "Stopping"
    /\ loop' = [loop EXCEPT !.i = 0]
    /\ UNCHANGED <<pipelineVars, dotVars, callVars>>

\* for i := 0; i < numDevices; i++ { dac.Stop(i) }
PlayStop ==
    /\ lpc = "Stopping"
    /\ loop.prog = "dot"
    /\ loop.i < loop.numDevices
    /\ lpc' = "Stopping"
    /\ loop' = [Called("Stop") EXCEPT !.i = @ + 1]
    /\ UNCHANGED <<pipelineVars, dotVars, callVars>>

\* dac.CloseDevices(), and main returns
PlayClose ==
    /\ lpc = "Stopping"
    /\ loop.prog = "dot"
    /\ loop.i >= loop.numDevices
    /\ lpc' = "Returned"
    /\ loop' = Called("CloseDevices")
    /\ UNCHANGED <<pipelineVars, dotVars, callVars>>

PlayNext ==
    PlayOpen \/ PlayAdvance \/ PlayTick \/ PlayPoll \/ PlayWrite \/ PlayEndTick
    \/ PlayInterrupt \/ PlayStop \/ PlayClose

PlaySpec == PlayInit /\ [][PlayNext]_vars

(***************************************************************************)
(* The scanner of simple/main.go.                                          *)
(***************************************************************************)
numFramesInLoop == 20

\* the polls the scanner makes per device and pass before it gives up
maxAttempts == 1024

\* largest number of devices OpenDevices reports to the scanner
MaxScanDevices == 2

\* number of passes of the output loop that are followed
MaxPasses == 21

\* simple/main.go at its OpenDevices call: the frames are built
ScanInit ==
    /\ PipelineInit
    /\ DotIdle
    /\ CallIdle
    /\ lpc = "Open"
    /\ loop = [prog |-> "simple", numDevices |-> 0, j |-> 0, attempts |-> 0,
               frameIdx |-> 0, status |-> 0, polls |-> 0, writes |-> 0,
               offered |-> -1, passes |-> 0, lastOp |-> "none", ops |-> {}]

\* numDevices := dac.OpenDevices(); with no device main prints and returns
ScanOpen ==
    /\ lpc = "Open"
    /\ loop.prog = "simple"
    /\ \E n \in 0..MaxScanDevices :
        /\ loop' = [Called("OpenDevices") EXCEPT !.numDevices = n,
                                                 !.lastOp = "OpenDevices"]
        /\ lpc' = IF n = 0 THEN "Returned" ELSE "Names"
    /\ UNCHANGED <<pipelineVars, dotVars, callVars>>

\* dac.GetName(j), dac.GetFirmwareVersion(j)
ScanName ==
    /\ lpc = "Names"
    /\ loop.j < loop.numDevices
    /\ lpc' = "Names"
    /\ loop' = [loop EXCEPT !.ops = @ \cup {"GetName", "GetFirmwareVersion"},
                            !.lastOp = "GetFirmwareVersion",
                            !.j = @ + 1]
    /\ UNCHANGED <<pipelineVars, dotVars, callVars>>

\* frameIdx := 0, the output loop starts
ScanStart ==
    /\ lpc = "Names"
    /\ loop.j >= loop.numDevices
    /\ lpc' = "Device"
    /\ loop' = [loop EXCEPT !.frameIdx = 0, !.j = 0]
    /\ UNCHANGED <<pipelineVars, dotVars, callVars>>

\* for j: attempts := 0; loop.polls and loop.writes count the calls made for
\* device j in this pass, loop.offered is the index of the frame written
ScanDevice ==
    /\ lpc = "Device"
    /\ loop.prog = "simple"
    /\ loop.j < loop.numDevices
    /\ lpc' = "Attempt"
    /\ loop' = [loop EXCEPT !.attempts = 0, !.status = 0, !.polls = 0, !.writes = 0,
                            !.offered = -1]
    /\ UNCHANGED <<pipelineVars, dotVars, callVars>>

\* faulty variant: a negative status is polled again like a not-ready one
ScanPollRetryOnError ==
    /\ lpc = "Attempt"
    /\ loop.attempts < maxAttempts
    /\ \E s \in StatusValues :
        LET polled == [Called("GetStatus") EXCEPT !.status = s, !.polls = @ + 1,
                                                  !.lastOp = "GetStatus"]
        IN IF s = 1
             THEN lpc' = "Write" /\ loop' = polled
             ELSE lpc' = "Attempt" /\ loop' = [polled EXCEPT !.attempts = @ + 1]
    /\ UNCHANGED <<pipelineVars, dotVars, callVars>>

\* status := dac.GetStatus(j): 1 goes on to the write, a negative status
\* prints and breaks, any other status counts an attempt
ScanPoll ==
    /\ lpc = "Attempt"
    /\ loop.attempts < maxAttempts
    /\ \E s \in StatusValues :
        LET polled == [Called("GetStatus") EXCEPT !.status = s, !.polls = @ + 1,
                                                  !.lastOp = "GetStatus"]
        IN CASE s = 1 -> lpc' = "Write" /\ loop' = polled
             [] s < 0 -> lpc' = "Device" /\ loop' = [polled EXCEPT !.j = @ + 1]
             [] OTHER -> lpc' = "Attempt" /\ loop' = [polled EXCEPT !.attempts = @ + 1]
    /\ UNCHANGED <<pipelineVars, dotVars, callVars>>

\* attempts has reached 1024: the device is left for this pass
ScanGiveUp ==
    /\ lpc = "Attempt"
    /\ loop.attempts >= maxAttempts
    /\ lpc' = "Device"
    /\ loop' = [loop EXCEPT !.j = @ + 1]
    /\ UNCHANGED <<pipelineVars, dotVars, callVars>>

\* dac.WriteFrameHighResolution(j, pointsPerSecond, 0,
\* frames[frameIdx%numFramesInLoop]); break
ScanWrite ==
    /\ lpc = "Write"
    /\ loop.prog = "simple"
    /\ lpc' = "Device"
    /\ loop' = [Called("WriteFrameHighResolution") EXCEPT
                   !.offered = loop.frameIdx % numFramesInLoop,
                   !.writes = @ + 1,
                   !.lastOp = "WriteFrameHighResolution",
                   !.j = @ + 1]
    /\ UNCHANGED <<pipelineVars, dotVars, callVars>>

\* the loop over the devices has ended: frameIdx++ (numDevices > 0, no sleep);
\* loop.passes counts the passes completed
ScanEndPass ==
    /\ lpc = "Device"
    /\ loop.prog = "simple"
    /\ loop.j >= loop.numDevices
    /\ loop.frameIdx < MaxPasses
    /\ lpc' = "Device"
    /\ loop' = [loop EXCEPT !.frameIdx = @ + 1, !.passes = @ + 1, !.j = 0]
    /\ UNCHANGED <<pipelineVars, dotVars, callVars>>

ScanNext ==
    ScanOpen \/ ScanName \/ ScanStart \/ ScanDevice \/ ScanPoll \/ ScanGiveUp
    \/ ScanWrite \/ ScanEndPass

ScanSpec == ScanInit /\ [][ScanNext]_vars

\* the scanner keeps running: a step it can take is eventually taken
FairScanSpec == ScanSpec /\ WF_vars(ScanNext)

(***************************************************************************)
(* The advanced pattern of simple/main.go.                                 *)
(***************************************************************************)
\* number of GetStatus calls in a row that are counted
MaxStreak == 3

\* the frame main builds: a blanked move, three sides, two dwells
PatternFrame ==
    LET pLowLeft == Point(1000, 1000, 0, 255, 0, 255)
        pTopCenter == Point(2048, 3500, 0, 255, 0, 255)
        pLowRight == Point(3096, 1000, 0, 255, 0, 255)
    IN GenerateLine(Point(0, 0, 0, 0, 0, 0), pLowLeft, 5000000, FALSE, 0)
       \o GenerateLine(pLowLeft, pTopCenter, 20000000, TRUE, 0)
       \o GenerateDwell(pTopCenter, 2000000, TRUE)
       \o GenerateLine(pTopCenter, pLowRight, 20000000, TRUE, 0)
       \o GenerateDwell(pLowRight, 1000000, TRUE)
       \o GenerateLine(pLowRight, pLowLeft, 20000000, TRUE, 0)

\* a GetStatus call that returned s; loop.streak counts the GetStatus calls
\* made since the last WriteFrame call or sleep, up to MaxStreak
Polled(s) ==
    [Called("GetStatus") EXCEPT
        !.status = s,
        !.streak = IF @ >= MaxStreak THEN MaxStreak ELSE @ + 1]

PatternInit ==
    /\ PipelineInit
    /\ DotIdle
    /\ CallIdle
    /\ lpc = "Open"
    /\ loop = [prog |-> "advanced", numDevices |-> 0, frameLen |-> 0, i |-> 0,
               status |-> 0, streak |-> 0, ops |-> {}]

\* if dac.OpenDevices() == 0: print and return
PatternOpen ==
    /\ lpc = "Open"
    /\ loop.prog = "advanced"
    /\ \E n \in 0..MaxScanDevices :
        /\ loop' = [Called("OpenDevices") EXCEPT !.numDevices = n]
        /\ lpc' = IF n = 0 THEN "Returned" ELSE "Build"
    /\ UNCHANGED <<pipelineVars, dotVars, callVars>>

\* the frame is built; for { for i := 0
PatternBuild ==
    /\ lpc = "Build"
    /\ lpc' = "Cond"
    /\ loop' = [loop EXCEPT !.frameLen = Len(PatternFrame), !.i = 0]
    /\ UNCHANGED <<pipelineVars, dotVars, callVars>>

\* the inner loop's test i < dac.GetStatus(0): the body, or the end of the
\* inner loop and the next round of the outer one (i := 0)
PatternCond ==
    /\ lpc = "Cond"
    /\ \E s \in StatusValues :
        IF loop.i < s
          THEN lpc' = "Body" /\ loop' = [Polled(s) EXCEPT !.status = loop.status]
          ELSE lpc' = "Cond" /\ loop' = [Polled(s) EXCEPT !.status = loop.status,
                                                          !.i = 0]
    /\ UNCHANGED <<pipelineVars, dotVars, callVars>>

\* status := dac.GetStatus(0)
PatternPoll ==
    /\ lpc = "Body"
    /\ \E s \in StatusValues :
        /\ loop' = Polled(s)
        /\ lpc' = IF s = 1 THEN "WriteFrame" ELSE "Sleep"
    /\ UNCHANGED <<pipelineVars, dotVars, callVars>>

\* dac.WriteFrame(0, PPS, 0, frame); i++
PatternWrite ==
    /\ lpc = "WriteFrame"
    /\ lpc' = "Cond"
    /\ loop' = [Called("WriteFrame") EXCEPT !.streak = 0, !.i = @ + 1]
    /\ UNCHANGED <<pipelineVars, dotVars, callVars>>

\* time.Sleep(1 * time.Millisecond); i++
PatternSleep ==
    /\ lpc = "Sleep"
    /\ loop.prog = "advanced"
    /\ lpc' = "Cond"
    /\ loop' = [loop EXCEPT !.streak = 0, !.i = @ + 1]
    /\ UNCHANGED <<pipelineVars, dotVars, callVars>>

PatternNext ==
    PatternOpen \/ PatternBuild \/ PatternCond \/ PatternPoll \/ PatternWrite
    \/ PatternSleep

(***************************************************************************)
(* The output loops together, and all the example programs together.       *)
(***************************************************************************)
LoopInit == PlayInit \/ ScanInit \/ PatternInit

LoopNext == PlayNext \/ ScanNext \/ PatternNext

LoopSpec == LoopInit /\ [][LoopNext]_vars

\* the pipeline runs when no output loop program does
ProgramsInit == Init \/ LoopInit

ProgramsNext == (lpc = "Idle" /\ Next) \/ LoopNext

ProgramsSpec == ProgramsInit /\ [][ProgramsNext]_vars

(***************************************************************************)
(* Claims about the dot generator and the functions under call.            *)
(***************************************************************************)
InRange(p) ==
    p.X >= 0 /\ p.X <= galvoMaxCoord /\ p.Y >= 0 /\ p.Y <= galvoMaxCoord

\* C11: every sample of the frame the dot generator hands to WriteFrame has
\* X and Y within 0..4095, for every input the program accepts.
C11_SamplesInRange ==
    dpc = "Assembled" => \A i \in 1..Len(points) : InRange(points[i])

\* C12: for start and end within [0,4095]^2 and pps > 0, getTravelPoints
\* returns at least one eased sample followed by at least one settling
\* sample, every sample blanked, the last eased sample and every settling
\* sample exactly at the end position.
C12_TravelEndsAtEnd ==
    (callee = "getTravelPoints" /\ result.done /\ args.pps > 0) =>
        LET r == result.value
            n == TravelCount(args.startX, args.startY, args.endX, args.endY, args.pps)
        IN /\ n >= 1
           /\ Len(r) >= n + 1
           /\ Len(r) >= 2
           /\ \A i \in 1..Len(r) : IsBlank(r[i])
           /\ \A i \in n..Len(r) : r[i].X = args.endX /\ r[i].Y = args.endY

C12_Witness ==
    /\ callee = "getTravelPoints"
    /\ result.done
    /\ args.pps > 0
    /\ <<args.startX, args.startY>> # <<args.endX, args.endY>>
    /\ Len(result.value) > 2
    /\ result.value[1].X # args.endX

\* C13: for every duration GenerateDwell returns exactly
\* max(1, ceil(duration * PPS)) samples: the count is rounded up, never down.
C13_DwellRoundsUp ==
    (callee = "GenerateDwell" /\ result.done) =>
        LET c == CeilSamples(args.duration, AdvancedPPS)
        IN Len(result.value) = IF c < 1 THEN 1 ELSE c

\* C14: the result of getFeaturePoints, travel and ring together, holds at
\* most pointBudget samples, also when the budget left after the travel is
\* below 10.
C14_FeatureWithinBudget ==
    dpc = "Flyback" => Len(points) <= FeatureBudget(flags.pps)

LitCount(p) == Cardinality({i \in 1..Len(p) : IsLit(p[i])})

\* C15: getFeaturePoints returns the empty sequence exactly when
\* pointBudget - 1 < 10, and otherwise a sequence whose lit ring has at least
\* 10 samples.
C15_EmptyOrTenLit ==
    dpc = "Flyback" =>
        /\ (Len(points) = 0) <=> (FeatureBudget(flags.pps) - 1 < 10)
        /\ Len(points) > 0 => LitCount(points) >= 10

C15_Witness ==
    /\ dpc = "Flyback"
    /\ FeatureBudget(flags.pps) = 11
    /\ Len(points) > 0
    /\ LitCount(points) = 10

\* the least k >= 1 with k * len >= targetBufferPoints, for len >= 1
Copies(len) ==
    IF len >= targetBufferPoints THEN 1 ELSE (targetBufferPoints + len - 1) \div len

\* C16: for a non-empty compiled frame of length L the padding loop leaves
\* exactly k whole copies of it, k the least integer >= 1 with k * L >= 2000:
\* the padded length is a multiple of L and at least 2000, and no copy is cut.
C16_WholeCopies ==
    (dpc = "Assembled" /\ Len(singleLoop) > 0) =>
        LET L == Len(singleLoop)
        IN /\ Len(points) = Copies(L) * L
           /\ Len(points) >= targetBufferPoints
           /\ \A i \in 1..Len(points) : points[i] = singleLoop[((i - 1) % L) + 1]

C16_Witness ==
    /\ dpc = "Assembled"
    /\ Len(singleLoop) > 0
    /\ Len(points) > targetBufferPoints
    /\ Len(points) >= 3 * Len(singleLoop)

\* C17: the padding step leaves a frame of length at or above the target
\* unchanged, and padding the output of padding changes nothing.
C17_PaddingIdempotent ==
    (callee = "padding" /\ result.done) =>
        /\ Len(args.frame) >= targetBufferPoints => result.value = args.frame
        /\ PadFrame(result.value) = result.value

C17_Witness ==
    /\ callee = "padding"
    /\ result.done
    /\ Len(args.frame) >= targetBufferPoints
    /\ result.value = args.frame

\* C18: for all flags that pass the input check, frame assembly terminates:
\* every iteration of the padding loop brings points closer to the target
\* length, also when getFeaturePoints returned the empty sequence.
C18_AssemblyTerminates ==
    (dpc = "PadLoop" /\ NeedsPadding(points)) =>
        Len(points \o singleLoop) > Len(points)

\* the index of the last lit sample of p, 0 if there is none
LastLit(p) ==
    IF \E i \in 1..Len(p) : IsLit(p[i])
    THEN CHOOSE i \in 1..Len(p) : IsLit(p[i]) /\ \A j \in (i + 1)..Len(p) : ~IsLit(p[j])
    ELSE 0

\* C19: a non-empty compiled frame, before padding, ends its draw segment at
\* the ring's start position (cx + radius, cy), and ends with a blanked
\* flyback whose last sample is exactly the rest position (x, y).
C19_ClosesAtRingStart ==
    (dpc = "CopyLoop" /\ Len(points) > 0) =>
        LET l == LastLit(points)
        IN /\ l > 0
           /\ l < Len(points)
           /\ points[l].X = flags.x + flags.radius
           /\ points[l].Y = flags.y
           /\ points[Len(points)] = BlankPoint(flags.x, flags.y)

\* C20: a configuration with pps <= 0, or with a point budget that is zero or
\* negative, is rejected before any frame is assembled: main never goes on to
\* compile and pad a frame from it.
C20_InvalidConfigRejected ==
    (flags.pps <= 0 \/ PointBudget(flags.pps) <= 0) =>
        dpc \in {"Idle", "CheckInput", "Fatal"}

(***************************************************************************)
(* Claims about the output loops, the easing and GenerateLine.             *)
(***************************************************************************)

\* C21: in each program, when OpenDevices has returned 0 the program has
\* returned without starting its output: generateFrames and outputLoop are not
\* started, and OpenDevices is the only DAC operation called.
C21_NoDeviceNoOutput ==
    /\ "No devices found. Exiting." \in stdout =>
        /\ mpc = "Returned"
        /\ ppc = "NotStarted"
        /\ cpc = "NotStarted"
        /\ call = DacCall("OpenDevices", "main")
        /\ lastWrite = NoWrite
    /\ (loop.prog # "none" /\ lpc # "Open" /\ loop.numDevices = 0) =>
        /\ lpc = "Returned"
        /\ loop.ops = {"OpenDevices"}

C21_Witness ==
    /\ "No devices found. Exiting." \in stdout
    /\ mpc = "Returned"
    /\ call = DacCall("OpenDevices", "main")
    /\ lpc = "Idle"

C25_ReplayInterval ==
    /\ [](/\ (loop.gap = -1 \/ loop.gap >= minReplayInterval)
          /\ lpc \in {"Devices", "Write"} => loop.since >= minReplayInterval
          /\ \A a, b \in 1..Len(loop.written) :
                a # b => loop.written[a] # loop.written[b])
    /\ [][/\ loop'.since < loop.since =>
                (lpc = "Devices" /\ lpc' = "Select" /\ loop.written # <<>>)
          /\ (lpc = "Devices" /\ lpc' = "Select" /\ loop.written # <<>>) =>
                loop'.since = 0]_vars

C25_Witness ==
    /\ loop.prog = "dot"
    /\ lpc = "Devices"
    /\ Len(loop.written) = 2
    /\ loop.gap >= minReplayInterval
    /\ loop.numDevices = 2

\* C28: in the scanner's output loop a pass makes at most maxAttempts GetStatus
\* polls and at most one WriteFrameHighResolution call per device; the write
\* comes only directly after a poll that returned 1 and offers
\* frames[n mod numFramesInLoop] in pass n; a negative status ends the polling
\* of the device for the pass without a write; frameIdx changes only at the end
\* of a pass, by one; and every pass ends.
C28_PassBoundedAndAdvances ==
    /\ [](/\ loop.polls <= maxAttempts
          /\ loop.writes <= 1
          /\ loop.frameIdx = loop.passes
          /\ lpc = "Write" => (loop.status = 1 /\ loop.lastOp = "GetStatus"))
    /\ [][/\ loop'.writes > loop.writes =>
                /\ loop.status = 1
                /\ loop.lastOp = "GetStatus"
                /\ loop.writes = 0
                /\ loop'.offered = loop.passes % numFramesInLoop
          /\ (loop'.polls > loop.polls /\ loop'.status < 0) =>
                /\ loop'.j = loop.j + 1
                /\ lpc' = "Device"
                /\ loop'.writes = 0
          /\ loop'.frameIdx # loop.frameIdx =>
                /\ loop'.frameIdx = loop.frameIdx + 1
                /\ lpc = "Device"
                /\ loop.j >= loop.numDevices]_vars
    /\ []<>(lpc = "Returned" \/ (lpc = "Device" /\ loop.j >= loop.numDevices))

C28_Witness ==
    /\ loop.prog = "simple"
    /\ lpc = "Device"
    /\ loop.polls = maxAttempts
    /\ loop.status = 1
    /\ loop.writes = 1
    /\ loop.passes = numFramesInLoop
    /\ loop.offered = 0

\* C29 as stated: the advanced pattern's output loop never makes two GetStatus
\* calls without a sleep or a WriteFrame call between them.
C29_SleepOrWriteBetweenPolls ==
    loop.prog = "advanced" => loop.streak <= 1

\* C30 as stated: for every duration GenerateLine's interpolation parameter is
\* defined and lies in [0,1] at every sample, the first sample is at the start
\* position and the last at the end position, and every sample carries the end
\* point's colour if lit and zero colour otherwise.
C30_LineWellDefined ==
    (callee = "GenerateLine" /\ result.done) =>
        LET pts == result.value
            n == Len(pts)
        IN /\ n = LineCount(args.duration)
           /\ \A i \in 0..(n - 1) :
                LET t == LineParam(i, n)
                IN ~t.nan /\ 0 <= t.num /\ t.num <= t.den
           /\ pts[1].X = args.start.X /\ pts[1].Y = args.start.Y
           /\ pts[n].X = args.end.X /\ pts[n].Y = args.end.Y
           /\ \A k \in 1..n :
                IF args.on
                  THEN /\ pts[k].R = args.end.R /\ pts[k].G = args.end.G
                       /\ pts[k].B = args.end.B /\ pts[k].I = args.end.I
                  ELSE IsBlank(pts[k])

\* C31: a call of DAC.WriteFrame, WriteFrameHighResolution or
\* WriteFrameExtended with an empty point slice returns 0, enters no wrapper
\* function, hands no frame to the device write and leaves the DAC as it was.
C31_EmptyFrameNotWritten ==
    (callee = "WriteFrame" /\ result.done /\ Len(args.points) = 0)
        => /\ result.value.ret = 0
           /\ result.value.dac.cgo = args.dac.cgo
           /\ result.value.dac.sdk = args.dac.sdk
           /\ result.value.dac = args.dac

\* an empty slice has been given to the extended binding of a DAC that has
\* written a frame before, and the call has returned
C31_Witness ==
    /\ callee = "WriteFrame"
    /\ result.done
    /\ args.fn = "WriteFrameExtended"
    /\ Len(args.points) = 0
    /\ Len(args.dac.sdk) = 1
    /\ result.value.ret = 0

====
